---- MODULE Spec2Model ----
(***************************************************************************)
(* State-machine model of the authoritative game simulation of EWC_Game:   *)
(* server/game/GameWorld.js, server/game/Player.js (the multi-cell Player  *)
(* and PlayerCell classes), server/game/Food.js and the socket handlers    *)
(* and timers of server/app.js.                                            *)
(*                                                                         *)
(* Numbers.  The program computes with IEEE doubles; the model computes    *)
(* with integers in fixed point:                                           *)
(*   - lengths, sizes and velocities in 1/Scale world units,               *)
(*   - masses in 1/MassScale mass units (MassScale = 2^4 * 5, so that four *)
(*     successive halvings of a whole mass are exact, as they are exact    *)
(*     in doubles),                                                        *)
(*   - an inexact product (x * 0.8, x * lossRate * dt) is rounded to a     *)
(*     multiple of MassGrain, the model's stand-in for the rounding of a   *)
(*     double product,                                                     *)
(*   - unit vectors (dx / distance, cos, sin) in thousandths,              *)
(*   - time in milliseconds, Date.now() being the variable now.            *)
(***************************************************************************)
EXTENDS Integers, Sequences, FiniteSets, TLC

Scale == 10
MassScale == 80
MassGrain == 16
Unit == 1000

\* Date.now() when the process starts: any value above every cooldown the
\* code compares "Date.now() - 0" with behaves like the real epoch time.
Epoch == 20000

(***************************************************************************)
(* Bounds of the exploration.                                              *)
(***************************************************************************)
MaxEvents == 1       \* state-changing socket events in one behaviour
MaxTicks == 1        \* ticks of the game loop in one behaviour
MaxElapsed == 3001   \* milliseconds of clock time in one behaviour
FoodTarget == 2      \* config.food.count of the modelled configuration
MaxFoodCount == 12   \* largest config.food.count of the food population study
MaxFoodSize == 14    \* largest food.size that study starts from

\* Socket ids of the clients
PlayerIds == {1, 2}

(***************************************************************************)
(* Program constants, in model units.                                      *)
(***************************************************************************)
WorldWidth == 5000 * Scale
WorldHeight == 5000 * Scale
FoodSize == 6 * Scale
ExplosionFoodSize == 8 * Scale
ExplosionNutrition == 2 * MassScale
StartMass == 400 * MassScale
VipMass == 1000 * MassScale
DecayThreshold == 500 * MassScale
DecayFloor == 400 * MassScale
MinSplitMass == 64 * MassScale
BonusMass == 50 * MassScale
SplitCooldown == 1000
MergeCooldown == 10000
RecentSplitWindow == 2000
InvulnerabilityTime == 3000
MaxFoodPerTick == 5
MaxExplosionFood == 20

(***************************************************************************)
(* Arithmetic helpers.                                                     *)
(***************************************************************************)
Min(a, b) == IF a < b THEN a ELSE b
Max(a, b) == IF a > b THEN a ELSE b
Abs(a) == IF a < 0 THEN -a ELSE a

\* Division rounding toward zero (b > 0), symmetric as float division is.
TDiv(a, b) == IF a >= 0 THEN a \div b ELSE -((-a) \div b)

\* The double NaN: what 0 / 0 gives, what Math.min gives for a string that is
\* not a number, and what every sum, product, Math.max and Math.floor of a
\* NaN gives
NaN == -1000000

\* The value of an arithmetic expression over the operands vs: NaN when one
\* of them is NaN, r otherwise. (A comparison with NaN is false.)
Num(vs, r) == IF NaN \in vs THEN NaN ELSE r

RECURSIVE SqrtSearch(_, _, _)
SqrtSearch(n, lo, hi) ==
    IF lo >= hi THEN lo
    ELSE LET mid == (lo + hi + 1) \div 2
         IN IF mid * mid <= n THEN SqrtSearch(n, mid, hi)
                              ELSE SqrtSearch(n, lo, mid - 1)

\* Math.sqrt on a non-negative fixed-point number: the largest r with r*r <= n.
ISqrt(n) == SqrtSearch(n, 0, Min(n, 46340))

\* Math.sqrt(dx * dx + dy * dy)
Dist(dx, dy) == ISqrt(dx * dx + dy * dy)

\* Math.sqrt(mass) as a length: mass is in 1/MassScale, the result in 1/Scale.
SqrtMass(m) == ISqrt((m * Scale * Scale) \div MassScale)

\* Rounding of an inexact mass product.
RoundMass(m) == (m \div MassGrain) * MassGrain

\* Math.cos(k * 18 degrees) and Math.sin(k * 18 degrees), in thousandths.
CosTab == << 1000, 951, 809, 588, 309, 0, -309, -588, -809, -951,
             -1000, -951, -809, -588, -309, 0, 309, 588, 809, 951 >>
Cos20(k) == CosTab[(k % 20) + 1]
Sin20(k) == CosTab[((k + 15) % 20) + 1]

\* (Math.cos(a), Math.sin(a)) for a = Math.atan2(dy, dx); atan2(0, 0) is 0.
Direction(dx, dy) ==
    LET d == Dist(dx, dy)
    IN IF d = 0 THEN [x |-> Unit, y |-> 0]
       ELSE [x |-> TDiv(dx * Unit, d), y |-> TDiv(dy * Unit, d)]

RECURSIVE SumSeq(_)
SumSeq(s) == IF s = << >> THEN 0 ELSE Head(s) + SumSeq(Tail(s))

\* The sequence s without its i-th element: Array.splice(i, 1).
RemoveAt(s, i) == [k \in 1..(Len(s) - 1) |-> IF k < i THEN s[k] ELSE s[k + 1]]

(***************************************************************************)
(* State.                                                                  *)
(***************************************************************************)
VARIABLES
    now,         \* Date.now()
    lastUpdate,  \* GameWorld.lastUpdate
    players,     \* GameWorld.players: id -> Player, for the ids in the map
    order,       \* iteration (insertion) order of the players Map
    food,        \* GameWorld.food in iteration order
    pc,          \* position inside GameWorld.update, "idle" between handlers
    tick,        \* locals of the running update: dt, loop indices, playerArray
    last,        \* what the step just taken did (history, not program state)
    budget,      \* exploration counters: events, ticks
    settled,     \* getGameState() as it was when the last update returned (history)
    cplayers,    \* cluster-server.js: the players Map of a worker
    grid,        \* cluster-server.js: SpatialGrid.grid as a set of << cell, id >>
    gs,          \* server-go/main.go: the goroutines and the GameServer mutex
    foodWorld,   \* a GameWorld as maintainFood sees it: config.food.count, food.size
    srv          \* server-go/main.go: the GameServer, its spatial grid and its goroutines

vars == << now, lastUpdate, players, order, food, pc, tick, last, budget,
           settled, cplayers, grid, gs, foodWorld, srv >>

\* No GameWorld under the study of the food population
NoFoodWorld == [targetCount |-> 0, size |-> 0]

\* No Go server under the study of the other servers
NoServer == << >>

NoTick == [dt |-> 0, pi |-> 0, ci |-> 0, cj |-> 0, arr |-> << >>, ai |-> 0, aj |-> 0]

Joined == DOMAIN players

(***************************************************************************)
(* PlayerCell (Player.js).                                                 *)
(***************************************************************************)
\* new PlayerCell(id, x, y, mass, color, splitTime)
NewCell(x, y, mass, splitTime) ==
    [x |-> x, y |-> y, vx |-> 0, vy |-> 0,
     mass |-> mass, size |-> SqrtMass(mass),
     splitTime |-> splitTime, canMerge |-> (splitTime = 0)]

\* The radius the code derives from a cell or a food item: size / 2.
Radius(e) == e.size \div 2

\* Player.getTotalMass
TotalMass(cells) == SumSeq([k \in 1..Len(cells) |-> cells[k].mass])

\* Player.getCenterPosition
CenterPosition(cells) ==
    IF Len(cells) = 0 THEN [x |-> 0, y |-> 0]
    ELSE LET total == TotalMass(cells)
             sx == SumSeq([k \in 1..Len(cells) |-> cells[k].x * cells[k].mass])
             sy == SumSeq([k \in 1..Len(cells) |-> cells[k].y * cells[k].mass])
         IN [x |-> Num({cells[k].x : k \in 1..Len(cells)}, TDiv(sx, total)),
             y |-> Num({cells[k].y : k \in 1..Len(cells)}, TDiv(sy, total))]

\* Index of the largest cell: reduce keeps the earlier cell on ties.
RECURSIVE LargestFrom(_, _, _)
LargestFrom(cells, k, best) ==
    IF k > Len(cells) THEN best
    ELSE LargestFrom(cells, k + 1, IF cells[k].mass > cells[best].mass THEN k ELSE best)
LargestIndex(cells) == LargestFrom(cells, 2, 1)

(***************************************************************************)
(* Inputs.                                                                 *)
(***************************************************************************)
\* The "join-game" messages: a name and the spawn point the server draws
JoinInputs == { [name |-> "amba_fermi", pt |-> [x |-> 100 * Scale, y |-> 100 * Scale]],
                [name |-> "bob", pt |-> [x |-> 104 * Scale, y |-> 100 * Scale]] }

\* Results of Food.createRandom: Math.random() * width, Math.random() * height.
FoodPoints == { [x |-> 108 * Scale, y |-> 100 * Scale],
                [x |-> 300 * Scale, y |-> 300 * Scale] }

\* The points the initial food is spawned at, repeated as often as needed
InitialFoodPoints == << [x |-> 108 * Scale, y |-> 100 * Scale],
                       [x |-> 300 * Scale, y |-> 300 * Scale] >>

\* Results of 50 + Math.random() * 100 in createFoodExplosion.
ExplosionDistances == { 100 * Scale }

\* Results of Math.random() * Math.PI * 2 in handleCellInteractions, as
\* (cos, sin) in thousandths.
NudgeAngles == { [x |-> Unit, y |-> 0] }

\* Payloads of a "move" message: absent, malformed, or numbers (whole units).
NoData == [kind |-> "none"]
MovePayloads == { NoData,
                  [kind |-> "bad", x |-> 1],
                  [kind |-> "num", x |-> -7, y |-> 1] }

\* Elapsed milliseconds between two handler invocations.
ClockSteps == { 2000, 3001 }

(***************************************************************************)
(* Player (Player.js, the multi-cell class).                               *)
(***************************************************************************)
\* Player.checkEasterEgg
CheckEasterEgg(name) == name \in {"amba_fermi", "amba_tihao"}

\* new Player(socketId, name) followed by Player.spawn(x, y)
SpawnedPlayer(name, x, y, t) ==
    LET vip == CheckEasterEgg(name)
        initialMass == IF vip THEN VipMass ELSE StartMass
        score == initialMass \div (4 * MassScale)
    IN [cells |-> << NewCell(x, y, initialMass, 0) >>,
        targetX |-> 0, targetY |-> 0,
        lastSplit |-> 0,
        invulnerable |-> TRUE, invulnerabilityStart |-> t,
        score |-> score, kills |-> 0,
        alive |-> TRUE, spawned |-> TRUE,
        isVIP |-> vip,
        lastGrowthMilestone |-> IF vip THEN score \div 100 ELSE 0]

\* The steering speed of a cell: Math.max(1, 5 - (cell.size - 20) / 30)
CellSpeed(c) == Max(1 * Scale, 5 * Scale - TDiv(c.size - 20 * Scale, 30))

\* Player.updateMovement: the per-cell body of the forEach
SteerCell(c, targetX, targetY) ==
    LET dx == targetX - c.x
        dy == targetY - c.y
        distance == Num({c.x, c.y, targetX, targetY}, Dist(dx, dy))
    IN IF distance # NaN /\ distance > 5 * Scale
       THEN [c EXCEPT !.vx = Num({c.vx}, c.vx + TDiv(dx * CellSpeed(c), distance * 10)),
                      !.vy = Num({c.vy}, c.vy + TDiv(dy * CellSpeed(c), distance * 10))]
       ELSE c

\* Player.updateMovement
UpdateMovement(p, targetX, targetY) ==
    IF ~p.alive \/ Len(p.cells) = 0 THEN p
    ELSE [p EXCEPT !.targetX = targetX, !.targetY = targetY,
                   !.cells = [k \in 1..Len(p.cells) |-> SteerCell(p.cells[k], targetX, targetY)]]

\* Player.split with "cell.mass = newMass" left out
SplitHalvesKeepingMass(c, targetX, targetY, t) ==
    LET newMass == c.mass \div 2
        newSize == SqrtMass(newMass)
        at == {c.x, c.y, targetX, targetY}
        dir == Direction(targetX - c.x, targetY - c.y)
        offX == TDiv(dir.x * newSize * 2, Unit)
        offY == TDiv(dir.y * newSize * 2, Unit)
    IN [new |-> [NewCell(Num(at, c.x + offX), Num(at, c.y + offY), newMass, t)
                    EXCEPT !.vx = Num(at, TDiv(dir.x * 20 * Scale, Unit)),
                           !.vy = Num(at, TDiv(dir.y * 20 * Scale, Unit))],
        old |-> [c EXCEPT !.x = Num(at, c.x - offX), !.y = Num(at, c.y - offY),
                          !.vx = Num(at, -TDiv(dir.x * 15 * Scale, Unit)),
                          !.vy = Num(at, -TDiv(dir.y * 15 * Scale, Unit)),
                          !.splitTime = t, !.canMerge = FALSE]]

\* Player.split with "cell.canMerge = false" left out
SplitHalvesMergeable(c, targetX, targetY, t) ==
    LET newMass == c.mass \div 2
        newSize == SqrtMass(newMass)
        at == {c.x, c.y, targetX, targetY}
        dir == Direction(targetX - c.x, targetY - c.y)
        offX == TDiv(dir.x * newSize * 2, Unit)
        offY == TDiv(dir.y * newSize * 2, Unit)
    IN [new |-> [NewCell(Num(at, c.x + offX), Num(at, c.y + offY), newMass, t)
                    EXCEPT !.vx = Num(at, TDiv(dir.x * 20 * Scale, Unit)),
                           !.vy = Num(at, TDiv(dir.y * 20 * Scale, Unit))],
        old |-> [c EXCEPT !.x = Num(at, c.x - offX), !.y = Num(at, c.y - offY),
                          !.mass = newMass, !.size = newSize,
                          !.vx = Num(at, -TDiv(dir.x * 15 * Scale, Unit)),
                          !.vy = Num(at, -TDiv(dir.y * 15 * Scale, Unit)),
                          !.splitTime = t]]

\* Player.split: the two cells a cell with mass > 64 is divided into.
SplitHalves(c, targetX, targetY, t) ==
    LET newMass == c.mass \div 2
        newSize == SqrtMass(newMass)
        at == {c.x, c.y, targetX, targetY}
        dir == Direction(targetX - c.x, targetY - c.y)
        separationDistance == newSize * 2
        offX == TDiv(dir.x * separationDistance, Unit)
        offY == TDiv(dir.y * separationDistance, Unit)
    IN [new |-> [NewCell(Num(at, c.x + offX), Num(at, c.y + offY), newMass, t)
                    EXCEPT !.vx = Num(at, TDiv(dir.x * 20 * Scale, Unit)),
                           !.vy = Num(at, TDiv(dir.y * 20 * Scale, Unit))],
        old |-> [c EXCEPT !.x = Num(at, c.x - offX), !.y = Num(at, c.y - offY),
                          !.mass = newMass, !.size = newSize,
                          !.vx = Num(at, -TDiv(dir.x * 15 * Scale, Unit)),
                          !.vy = Num(at, -TDiv(dir.y * 15 * Scale, Unit)),
                          !.splitTime = t, !.canMerge = FALSE]]

\* Player.split with the mass test of a cell left out
CanSplitAnyCell(c) == c.mass > 0

\* Player.split: "if (cell.mass > 64)"
CanSplitCell(c) == c.mass > MinSplitMass

\* Player.split without the cooldown check
SplitSucceedsAnyTime(p, t) ==
    \E k \in 1..Len(p.cells) : CanSplitCell(p.cells[k])

\* Player.split: TRUE when the call returns true.
SplitSucceeds(p, t) ==
    /\ ~(t - p.lastSplit < SplitCooldown)
    /\ \E k \in 1..Len(p.cells) : CanSplitCell(p.cells[k])

\* Player.split
SplitPlayerCells(p, t) ==
    IF ~SplitSucceeds(p, t) THEN p
    ELSE LET n == Len(p.cells)
             idx == SelectSeq([k \in 1..n |-> k], LAMBDA k : CanSplitCell(p.cells[k]))
             olds == [k \in 1..n |->
                        IF CanSplitCell(p.cells[k])
                        THEN SplitHalves(p.cells[k], p.targetX, p.targetY, t).old
                        ELSE p.cells[k]]
             news == [k \in 1..Len(idx) |->
                        SplitHalves(p.cells[idx[k]], p.targetX, p.targetY, t).new]
         IN [p EXCEPT !.cells = olds \o news, !.lastSplit = t]

\* Player.die with "this.cells = []" left out
DieKeepingCells(p) == [p EXCEPT !.alive = FALSE, !.spawned = FALSE]

\* Player.respawn: no caller in the server; it resets the flags, the score
\* and the cell list and creates no cell (Player.spawn does, when called)
Respawn(p, t) ==
    [p EXCEPT !.alive = TRUE, !.spawned = FALSE,
              !.invulnerable = TRUE, !.invulnerabilityStart = t,
              !.cells = << >>, !.score = 0, !.lastGrowthMilestone = 0]

\* Player.die which clears the cells and leaves the player alive
DieStillAlive(p) == [p EXCEPT !.spawned = FALSE, !.cells = << >>]

\* Player.die
Die(p) == [p EXCEPT !.alive = FALSE, !.spawned = FALSE, !.cells = << >>]

(***************************************************************************)
(* Food (Food.js) and the food population (GameWorld.js).                  *)
(***************************************************************************)
\* new Food(x, y, size, nutritionValue)
NewFood(x, y, size, nutritionValue) ==
    [x |-> x, y |-> y, size |-> size, nutritionValue |-> nutritionValue, eaten |-> FALSE]

\* Food.createRandom(width, height, config.food.size)
RandomFood(pt) == NewFood(pt.x, pt.y, FoodSize, 1 * MassScale)

\* createFoodExplosion with the cap off by one
ExplosionCountShort(mass) == Min(mass \div (20 * MassScale), MaxExplosionFood - 1)

\* GameWorld.createFoodExplosion: the number of pieces
ExplosionCount(mass) == Min(mass \div (20 * MassScale), MaxExplosionFood)

\* GameWorld.createFoodExplosion: the pieces, ds[i] being the i-th random distance
FoodExplosion(x, y, mass, ds) ==
    LET n == ExplosionCount(mass)
    IN [i \in 1..n |->
          LET k == ((i - 1) * 20) \div n
              foodX == x + TDiv(Cos20(k) * ds[i], Unit)
              foodY == y + TDiv(Sin20(k) * ds[i], Unit)
          IN NewFood(Num({x}, Max(10 * Scale, Min(WorldWidth - 10 * Scale, foodX))),
                     Num({y}, Max(10 * Scale, Min(WorldHeight - 10 * Scale, foodY))),
                     ExplosionFoodSize, ExplosionNutrition)]

(***************************************************************************)
(* One tick of a player: Player.update and what it calls.                  *)
(***************************************************************************)
\* PlayerCell.update with the merge cooldown left out
CellUpdateMergeable(c, dt, t) ==
    LET recentlySplit == (t - c.splitTime) < RecentSplitWindow
        friction == IF recentlySplit THEN 95 ELSE 92
    IN [c EXCEPT !.x = Num({c.x, c.vx}, c.x + TDiv(c.vx * dt, 1000)),
                 !.y = Num({c.y, c.vy}, c.y + TDiv(c.vy * dt, 1000)),
                 !.vx = Num({c.vx}, TDiv(c.vx * friction, 100)),
                 !.vy = Num({c.vy}, TDiv(c.vy * friction, 100)),
                 !.size = SqrtMass(c.mass),
                 !.canMerge = TRUE]

\* PlayerCell.update(deltaTime); dt in milliseconds, t is Date.now()
CellUpdate(c, dt, t) ==
    LET recentlySplit == (t - c.splitTime) < RecentSplitWindow
        friction == IF recentlySplit THEN 95 ELSE 92
    IN [c EXCEPT !.x = Num({c.x, c.vx}, c.x + TDiv(c.vx * dt, 1000)),
                 !.y = Num({c.y, c.vy}, c.y + TDiv(c.vy * dt, 1000)),
                 !.vx = Num({c.vx}, TDiv(c.vx * friction, 100)),
                 !.vy = Num({c.vy}, TDiv(c.vy * friction, 100)),
                 !.size = SqrtMass(c.mass),
                 !.canMerge = IF t - c.splitTime > MergeCooldown THEN TRUE ELSE c.canMerge]

\* cell.mass * (1 - lossRate * deltaTime), lossRate = 0.002 per second
DecayedMass(m, dt) == m - RoundMass((m * dt) \div 500000)

\* Player.update: mass loss over time for large cells
CellDecay(c, dt) ==
    IF c.mass > DecayThreshold
    THEN LET m == Max(DecayFloor, DecayedMass(c.mass, dt))
         IN [c EXCEPT !.mass = m, !.size = SqrtMass(m)]
    ELSE c

\* Player.update: the invulnerability window
InvulnerableAfter(p, t) ==
    IF p.invulnerable /\ t - p.invulnerabilityStart > InvulnerabilityTime
    THEN FALSE ELSE p.invulnerable

\* Player.update up to the call of handleCellInteractions
Integrate(p, dt, t) ==
    [p EXCEPT !.invulnerable = InvulnerableAfter(p, t),
              !.cells = [k \in 1..Len(p.cells) |-> CellDecay(CellUpdate(p.cells[k], dt, t), dt)]]

\* The mass-weighted combination written in both merge branches, where m2 is
\* cell2.mass as it is when the line runs.
Weighted(a1, m1, a2, m2) == Num({a1, a2}, TDiv(a1 * m1 + a2 * m2, m1 + m2))

\* The merge with "cell2.mass += cell1.mass" left out
AbsorbWithoutMass(c1, c2, both) ==
    [c2 EXCEPT !.x = Weighted(c1.x, c1.mass, c2.x, c2.mass),
               !.y = Weighted(c1.y, c1.mass, c2.y, c2.mass),
               !.vx = Weighted(c1.vx, c1.mass, c2.vx, c2.mass),
               !.vy = Weighted(c1.vy, c1.mass, c2.vy, c2.mass),
               !.splitTime = IF both THEN 0 ELSE Min(c1.splitTime, c2.splitTime),
               !.canMerge = IF both THEN TRUE ELSE (c1.canMerge /\ c2.canMerge)]

\* handleCellInteractions: cell2 after absorbing cell1 (both branches assign
\* cell2.mass first and then read it in the four weighted lines).
Absorb(c1, c2, both) ==
    LET mass2 == c2.mass + c1.mass
    IN [c2 EXCEPT !.mass = mass2,
                  !.size = SqrtMass(mass2),
                  !.x = Weighted(c1.x, c1.mass, c2.x, mass2),
                  !.y = Weighted(c1.y, c1.mass, c2.y, mass2),
                  !.vx = Weighted(c1.vx, c1.mass, c2.vx, mass2),
                  !.vy = Weighted(c1.vy, c1.mass, c2.vy, mass2),
                  !.splitTime = IF both THEN 0 ELSE Min(c1.splitTime, c2.splitTime),
                  !.canMerge = IF both THEN TRUE ELSE (c1.canMerge /\ c2.canMerge)]

\* handleCellInteractions: the distances of one pair
MinDistance(c1, c2) == (c1.size + c2.size) \div 2
EasyMergeDistance(c1, c2) == MinDistance(c1, c2) + 20 * Scale
HardMergeDistance(c1, c2) == MinDistance(c1, c2) - 5 * Scale
PairDistance(c1, c2) == Num({c1.x, c1.y, c2.x, c2.y}, Dist(c1.x - c2.x, c1.y - c2.y))

\* handleCellInteractions: the magnetic attraction of two merge-eligible cells
\* (dx / distance divides by the distance, whatever it is: 0 / 0 when the
\* centers coincide).
Attract(c1, c2) ==
    LET dx == c1.x - c2.x
        dy == c1.y - c2.y
        distance == PairDistance(c1, c2)
        reach == (EasyMergeDistance(c1, c2) * 15) \div 10
    IN IF distance # NaN /\ distance < reach
       THEN LET force == Max(Scale \div 2, (reach - distance) \div 20)
                attractX == IF distance = 0 THEN NaN ELSE TDiv(dx * force, distance)
                attractY == IF distance = 0 THEN NaN ELSE TDiv(dy * force, distance)
            IN [c1 |-> [c1 EXCEPT !.vx = Num({c1.vx, attractX}, c1.vx - TDiv(attractX * 3, 10)),
                                  !.vy = Num({c1.vy, attractY}, c1.vy - TDiv(attractY * 3, 10))],
                c2 |-> [c2 EXCEPT !.vx = Num({c2.vx, attractX}, c2.vx + TDiv(attractX * 3, 10)),
                                  !.vy = Num({c2.vy, attractY}, c2.vy + TDiv(attractY * 3, 10))]]
       ELSE [c1 |-> c1, c2 |-> c2]

\* handleCellInteractions with "if (cell1.canMerge || cell2.canMerge)" left out
FusesIneligible(c1, c2) ==
    /\ PairDistance(c1, c2) # NaN
    /\ IF c1.canMerge /\ c2.canMerge
       THEN PairDistance(c1, c2) < EasyMergeDistance(c1, c2)
       ELSE PairDistance(c1, c2) < HardMergeDistance(c1, c2)

\* handleCellInteractions: does the pair fuse in this iteration?
Fuses(c1, c2) ==
    /\ PairDistance(c1, c2) # NaN
    /\ IF c1.canMerge /\ c2.canMerge
       THEN PairDistance(c1, c2) < EasyMergeDistance(c1, c2)
       ELSE PairDistance(c1, c2) < HardMergeDistance(c1, c2) /\ (c1.canMerge \/ c2.canMerge)

\* handleCellInteractions: the anti-overlap push of a pair that did not fuse;
\* ang is the random angle used when the cells are on top of each other.
Separate(c1, c2, ang) ==
    LET dx == c1.x - c2.x
        dy == c1.y - c2.y
        distance == PairDistance(c1, c2)
        minDistance == MinDistance(c1, c2)
    IN IF distance = NaN \/ ~(distance < minDistance) THEN [c1 |-> c1, c2 |-> c2]
       ELSE IF distance < 1
       THEN [c1 |-> [c1 EXCEPT !.x = c1.x + TDiv(ang.x * 2 * Scale, Unit),
                               !.y = c1.y + TDiv(ang.y * 2 * Scale, Unit)],
             c2 |-> [c2 EXCEPT !.x = c2.x - TDiv(ang.x * 2 * Scale, Unit),
                               !.y = c2.y - TDiv(ang.y * 2 * Scale, Unit)]]
       ELSE LET pushForce == (minDistance - distance) \div 2
                pushX == TDiv(dx * pushForce, distance)
                pushY == TDiv(dy * pushForce, distance)
                totalMass == c1.mass + c2.mass
                \* cell1Ratio = cell2.mass / totalMass, cell2Ratio = cell1.mass / totalMass
                p1x == TDiv(pushX * c2.mass, totalMass)
                p1y == TDiv(pushY * c2.mass, totalMass)
                p2x == TDiv(pushX * c1.mass, totalMass)
                p2y == TDiv(pushY * c1.mass, totalMass)
            IN [c1 |-> [c1 EXCEPT !.x = c1.x + p1x, !.y = c1.y + p1y,
                                  !.vx = Num({c1.vx}, c1.vx + TDiv(p1x, 10)),
                                  !.vy = Num({c1.vy}, c1.vy + TDiv(p1y, 10))],
                c2 |-> [c2 EXCEPT !.x = c2.x - p2x, !.y = c2.y - p2y,
                                  !.vx = Num({c2.vx}, c2.vx - TDiv(p2x, 10)),
                                  !.vy = Num({c2.vy}, c2.vy - TDiv(p2y, 10))]]

\* handleCellInteractions: one iteration of the inner loop on cells[i], cells[j]
\* (i > j). Yields the cells afterwards and whether the iteration ended in the
\* break that follows a merge.
InteractPair(cells, i, j, ang) ==
    LET both == cells[i].canMerge /\ cells[j].canMerge
        pulled == IF both THEN Attract(cells[i], cells[j])
                          ELSE [c1 |-> cells[i], c2 |-> cells[j]]
        c1 == pulled.c1
        c2 == pulled.c2
    IN IF Fuses(c1, c2)
       THEN [merged |-> TRUE,
             cells |-> RemoveAt([cells EXCEPT ![j] = Absorb(c1, c2, both)], i)]
       ELSE LET pushed == Separate(c1, c2, ang)
            IN [merged |-> FALSE,
                cells |-> [cells EXCEPT ![i] = pushed.c1, ![j] = pushed.c2]]

\* checkGrowthMilestones with "largestCell.size = Math.sqrt(...)" left out
GrowthWithoutResize(p) ==
    LET currentMilestone == p.score \div 100
    IN IF currentMilestone > p.lastGrowthMilestone
       THEN LET k == LargestIndex(p.cells)
            IN [p EXCEPT !.cells[k].mass = p.cells[k].mass
                              + (currentMilestone - p.lastGrowthMilestone) * BonusMass,
                         !.lastGrowthMilestone = currentMilestone]
       ELSE p

\* Player.checkGrowthMilestones
CheckGrowthMilestones(p) ==
    LET currentMilestone == p.score \div 100
    IN IF currentMilestone > p.lastGrowthMilestone
       THEN LET bonusMass == (currentMilestone - p.lastGrowthMilestone) * BonusMass
                k == LargestIndex(p.cells)
                m == p.cells[k].mass + bonusMass
            IN [p EXCEPT !.cells[k].mass = m, !.cells[k].size = SqrtMass(m),
                         !.lastGrowthMilestone = currentMilestone]
       ELSE p

\* Player.update after handleCellInteractions: score and growth bonus
ScoreAndGrowth(p) ==
    CheckGrowthMilestones([p EXCEPT !.score = TotalMass(p.cells) \div (4 * MassScale)])

\* PlayerCell.constrainToWorld
ConstrainCell(c) ==
    LET radius == Radius(c)
    IN [c EXCEPT !.x = Num({c.x}, Max(radius, Min(WorldWidth - radius, c.x))),
                 !.y = Num({c.y}, Max(radius, Min(WorldHeight - radius, c.y)))]

\* Player.constrainToWorld
ConstrainToWorld(p) ==
    [p EXCEPT !.cells = [k \in 1..Len(p.cells) |-> ConstrainCell(p.cells[k])]]

(***************************************************************************)
(* Collisions: GameWorld.checkCollisions and what it calls.                *)
(***************************************************************************)
\* distance < (a.size + b.size) / 2, the overlap test used for cell against
\* food and for cell against cell
Overlaps(a, b) ==
    LET distance == Num({a.x, a.y, b.x, b.y}, Dist(a.x - b.x, a.y - b.y))
    IN distance # NaN /\ distance * 2 < a.size + b.size

\* Index of the cell closest to the food (the first one on ties)
RECURSIVE ClosestFrom(_, _, _, _)
ClosestFrom(cells, f, k, best) ==
    IF k > Len(cells) THEN best
    ELSE ClosestFrom(cells, f, k + 1,
            LET to(c) == Num({c.x, c.y, f.x, f.y}, Dist(c.x - f.x, c.y - f.y))
            IN IF to(cells[k]) # NaN /\ to(cells[best]) # NaN
                    /\ to(cells[k]) < to(cells[best])
               THEN k ELSE best)

\* food.nutritionValue || 3
Nutrition(f) == IF f.nutritionValue = 0 THEN 3 * MassScale ELSE f.nutritionValue

\* Player.eatFood which reports the meal without the gain of mass
EatFoodWithoutGain(p, f) ==
    IF ~p.alive \/ Len(p.cells) = 0 THEN [ok |-> FALSE, p |-> p, k |-> 0]
    ELSE LET k == ClosestFrom(p.cells, f, 1, 1)
         IN IF Overlaps(p.cells[k], f)
            THEN [ok |-> TRUE, k |-> k, p |-> p]
            ELSE [ok |-> FALSE, p |-> p, k |-> 0]

\* Player.eatFood
EatFood(p, f) ==
    IF ~p.alive \/ Len(p.cells) = 0 THEN [ok |-> FALSE, p |-> p, k |-> 0]
    ELSE LET k == ClosestFrom(p.cells, f, 1, 1)
             m == p.cells[k].mass + Nutrition(f)
         IN IF Overlaps(p.cells[k], f)
            THEN [ok |-> TRUE, k |-> k,
                  p |-> [p EXCEPT !.cells[k].mass = m, !.cells[k].size = SqrtMass(m)]]
            ELSE [ok |-> FALSE, p |-> p, k |-> 0]

\* Food.eat
FoodEat(f) == [f EXCEPT !.eaten = TRUE]

\* checkCollisions: food.eat() without this.food.delete(foodId)
ConsumeKeepingItem(foods, fi) == [foods EXCEPT ![fi] = FoodEat(foods[fi])]

\* checkCollisions: food.eat(); this.food.delete(foodId)
Consume(foods, fi) == RemoveAt([foods EXCEPT ![fi] = FoodEat(foods[fi])], fi)

\* checkCollisions, food part: the loop over the food for cell ci of player id
RECURSIVE CellFoodScan(_, _, _, _, _, _)
CellFoodScan(id, p, ci, foods, fi, log) ==
    IF fi > Len(foods) THEN [p |-> p, foods |-> foods, log |-> log]
    ELSE LET f == foods[fi]
             r == EatFood(p, f)
         IN IF ~f.eaten /\ Overlaps(p.cells[ci], f) /\ r.ok
            THEN [p |-> r.p, foods |-> Consume(foods, fi),
                  log |-> Append(log, [id |-> id, cell |-> r.k, by |-> ci, food |-> f,
                                       massBefore |-> p.cells[r.k].mass])]
            ELSE CellFoodScan(id, p, ci, foods, fi + 1, log)

\* checkCollisions, food part: the loop over the cells of player id
RECURSIVE PlayerFoodScan(_, _, _, _, _)
PlayerFoodScan(id, p, ci, foods, log) ==
    IF ci > Len(p.cells) THEN [p |-> p, foods |-> foods, log |-> log]
    ELSE LET r == CellFoodScan(id, p, ci, foods, 1, log)
         IN PlayerFoodScan(id, r.p, ci + 1, r.foods, r.log)

\* checkCollisions, food part: the loop over playerArray
RECURSIVE WorldFoodScan(_, _, _, _, _)
WorldFoodScan(ps, arr, ai, foods, log) ==
    IF ai > Len(arr) THEN [players |-> ps, foods |-> foods, log |-> log]
    ELSE LET r == PlayerFoodScan(arr[ai], ps[arr[ai]], 1, foods, log)
         IN WorldFoodScan([ps EXCEPT ![arr[ai]] = r.p], arr, ai + 1, r.foods, r.log)

\* checkCollisions: playerArray
PlayerArray(ps, ord) == SelectSeq(ord, LAMBDA id : ps[id].alive /\ Len(ps[id].cells) > 0)

\* Player.collidesWith
CollidesWith(p, q) ==
    /\ p.alive /\ q.alive
    /\ \E k \in 1..Len(p.cells) : \E l \in 1..Len(q.cells) : Overlaps(p.cells[k], q.cells[l])

\* The eat-ratio test with >= for >
AtLeastEatRatio(myMass, otherMass) == myMass * 10 >= otherMass * 12

\* myCell.mass > otherCell.mass * eatRatio, eatRatio = 1.2
ExceedsEatRatio(myMass, otherMass) == myMass * 10 > otherMass * 12

\* The test both canEat and eat apply to a pair of cells
CellCanEat(myCell, otherCell) ==
    ExceedsEatRatio(myCell.mass, otherCell.mass) /\ Overlaps(myCell, otherCell)

\* The pairs <<k, l>> of a cell of p that can eat a cell of q
EatingPairs(p, q) ==
    { kl \in (1..Len(p.cells)) \X (1..Len(q.cells)) : CellCanEat(p.cells[kl[1]], q.cells[kl[2]]) }

\* The first such pair in the order of the nested loops
FirstEatingPair(p, q) ==
    CHOOSE kl \in EatingPairs(p, q) :
        \A other \in EatingPairs(p, q) :
            kl[1] < other[1] \/ (kl[1] = other[1] /\ kl[2] <= other[2])

\* Player.canEat (this === other cannot hold for two entries of playerArray)
CanEat(p, q) ==
    /\ p.alive /\ q.alive
    /\ ~q.invulnerable
    /\ EatingPairs(p, q) # {}

\* The gain of an eat with the efficiency factor left out
EatGainLossless(otherMass) == otherMass

\* otherCell.mass * 0.8
EatGain(otherMass) == RoundMass((otherMass * 8) \div 10)

\* Player.eat: the eater and the victim afterwards
Eat(p, q) ==
    IF ~CanEat(p, q) THEN [ok |-> FALSE, eater |-> p, victim |-> q, k |-> 0, l |-> 0]
    ELSE LET kl == FirstEatingPair(p, q)
             m == p.cells[kl[1]].mass + EatGain(q.cells[kl[2]].mass)
         IN [ok |-> TRUE, k |-> kl[1], l |-> kl[2],
             eater |-> [p EXCEPT !.cells[kl[1]].mass = m,
                                 !.cells[kl[1]].size = SqrtMass(m),
                                 !.kills = p.kills + 1],
             victim |-> Die(q)]

\* The pair test of checkCollisions with the invulnerability "continue" left out
PairVerdictUnguarded(p1, p2) ==
    IF ~CollidesWith(p1, p2) THEN 0
    ELSE IF CanEat(p1, p2) THEN 1
    ELSE IF CanEat(p2, p1) THEN 2
    ELSE 0

\* The pair test of checkCollisions asking player2.canEat(player1) first
PairVerdictLaterFirst(p1, p2) ==
    IF p1.invulnerable \/ p2.invulnerable THEN 0
    ELSE IF ~CollidesWith(p1, p2) THEN 0
    ELSE IF CanEat(p2, p1) THEN 2
    ELSE IF CanEat(p1, p2) THEN 1
    ELSE 0

\* checkCollisions, player part: which of a pair eats the other. 0: nobody,
\* 1: player1 eats player2, 2: player2 eats player1.
PairVerdict(p1, p2) ==
    IF p1.invulnerable \/ p2.invulnerable THEN 0
    ELSE IF ~CollidesWith(p1, p2) THEN 0
    ELSE IF CanEat(p1, p2) THEN 1
    ELSE IF CanEat(p2, p1) THEN 2
    ELSE 0

\* Math.round of a length in tenths, in units
Round(v) == Num({v}, (2 * v + Scale) \div (2 * Scale))

\* Player.getVisibleData
VisibleData(id, p) ==
    LET center == CenterPosition(p.cells)
    IN [id |-> id, x |-> Round(center.x), y |-> Round(center.y),
        size |-> IF Len(p.cells) = 0 THEN 0
                 ELSE Round(p.cells[LargestIndex(p.cells)].size),
        isVIP |-> p.isVIP,
        cells |-> [k \in 1..Len(p.cells) |->
                     [x |-> Round(p.cells[k].x), y |-> Round(p.cells[k].y),
                      size |-> Round(p.cells[k].size),
                      splitTime |-> p.cells[k].splitTime,
                      canMerge |-> p.cells[k].canMerge]]]

\* GameWorld.getGameState: the alive and spawned players, the first 500 food
\* items without the eaten ones (Food.getClientData), the time
GameState(ps, ord, fd, t) ==
    LET shown == SelectSeq(ord, LAMBDA id : ps[id].alive /\ ps[id].spawned)
        visibleFood == SelectSeq(SubSeq(fd, 1, Min(Len(fd), 500)), LAMBDA f : ~f.eaten)
    IN [players |-> [k \in 1..Len(shown) |-> VisibleData(shown[k], ps[shown[k]])],
        food |-> [k \in 1..Len(visibleFood) |->
                    [x |-> Round(visibleFood[k].x), y |-> Round(visibleFood[k].y),
                     size |-> visibleFood[k].size]],
        timestamp |-> t]

\* Array.sort((a, b) => b.score - a.score) on the ids of players: by score,
\* highest first, players of equal score in the order they had
RECURSIVE SortedByScore(_, _)
SortedByScore(ps, ids) ==
    IF ids = << >> THEN << >>
    ELSE LET first == CHOOSE k \in 1..Len(ids) :
                         /\ \A l \in 1..Len(ids) : ps[ids[l]].score <= ps[ids[k]].score
                         /\ \A l \in 1..(k - 1) : ps[ids[l]].score < ps[ids[k]].score
         IN << ids[first] >> \o SortedByScore(ps, RemoveAt(ids, first))

\* GameWorld.getLeaderboard, maxEntries = 10; an entry carries the id of its
\* player in the place of the name
GetLeaderboard(ps, ord) ==
    LET shown == SelectSeq(ord, LAMBDA id : ps[id].alive /\ ps[id].spawned)
        sorted == SortedByScore(ps, shown)
        top == SubSeq(sorted, 1, Min(10, Len(sorted)))
    IN [k \in 1..Len(top) |->
          [id |-> top[k], score |-> ps[top[k]].score, kills |-> ps[top[k]].kills]]

\* The Go server (server-go/main.go) with the given players connected and every goroutine between
\* two rounds of its loop
GoServer(members) ==
    [tick |-> "idle", board |-> "idle", readers |-> {}, pending |-> {},
     members |-> members, stalled |-> {}, towrite |-> {}, listed |-> << >>]

(***************************************************************************)
(* Initial states: the world as constructed, and worlds later in a run     *)
(* (states the server is in after some joins, moves, ticks and meals),     *)
(* from which the bounded exploration continues.                           *)
(***************************************************************************)
P1 == [x |-> 100 * Scale, y |-> 100 * Scale]

\* new GameWorld(config): no player, the initial food spawned at random points
InitialFood == [i \in 1..FoodTarget |-> RandomFood(InitialFoodPoints[((i - 1) % 2) + 1])]

\* A player that joined more than three seconds ago, has been ticked since
\* (so its invulnerability has expired and its score follows its mass) and
\* has moved and eaten: cells are its cells now.
Established(name, cells) ==
    LET p == SpawnedPlayer(name, 0, 0, Epoch - 2 * MergeCooldown)
        score == TotalMass(cells) \div (4 * MassScale)
    IN [p EXCEPT !.cells = cells,
                 !.invulnerable = FALSE,
                 !.score = score,
                 !.lastGrowthMilestone = Max(p.lastGrowthMilestone, score \div 100)]

AtRest == [pc |-> "idle", tick |-> NoTick]

\* The position of update at the entry of the player-against-player loops
\* of checkCollisions, with players 1 and 2 in playerArray
AtPlayerLoop == [pc |-> "pvp", tick |-> [NoTick EXCEPT !.arr = << 1, 2 >>, !.ai = 1, !.aj = 2]]

World(ps, ord, fd, at) ==
    [players |-> ps, order |-> ord, food |-> fd, pc |-> at.pc, tick |-> at.tick]

\* The world as constructed
Constructed == World(<< >>, << >>, InitialFood, AtRest)

\* The x a cell of the given mass rests at when it leans on the left wall:
\* what PlayerCell.constrainToWorld leaves, size / 2
AtLeftWall(mass) == SqrtMass(mass) \div 2

\* One plain player, some seconds into its life, after its first growth
\* bonus, resting against the left wall
Lone ==
    World(<< Established("bob", << NewCell(AtLeftWall(450 * MassScale), P1.y,
                                           450 * MassScale, 0) >>) >>,
          << 1 >>, InitialFood, AtRest)

\* Two players with the given cells, when the player loop of checkCollisions
\* starts
Duel(cellsA, cellsB) ==
    World(<< Established("amba_fermi", cellsA), Established("bob", cellsB) >>,
          << 1, 2 >>, << >>, AtPlayerLoop)

\* Two single-cell players the update phase has brought onto the same spot
DuelAt(massA, massB, x, y) ==
    Duel(<< NewCell(x, y, massA, 0) >>, << NewCell(x, y, massB, 0) >>)

\* The masses of the duels: the scenario of the specification (1000 against
\* 700), the eat ratio met exactly (540 against 450), and exceeded by the
\* smallest amount the model represents
DuelMasses == { << 1000 * MassScale, 700 * MassScale >>,
                << 540 * MassScale, 450 * MassScale >>,
                << 540 * MassScale + MassGrain, 450 * MassScale >> }

\* A duel at the left wall. The eater's large cell is where constrainToWorld
\* has just put it, at x = radius, on top of a cell of the other player; each
\* player owns a second cell far from the fight.
WallDuel ==
    LET x == AtLeftWall(1000 * MassScale)
    IN Duel(<< NewCell(x, P1.y, 1000 * MassScale, 0),
               NewCell(300 * Scale, 300 * Scale, 100 * MassScale, 0) >>,
            << NewCell(x, P1.y, 450 * MassScale, 0),
               NewCell(400 * Scale, P1.y, 100 * MassScale, 0) >>)

\* One player ten seconds after a split, its two cells drifting back together
Halves ==
    LET t == Epoch - MergeCooldown
        half(x) == [NewCell(x, P1.y, 225 * MassScale, t) EXCEPT !.canMerge = FALSE]
    IN World(<< [Established("bob", << half(P1.x), half(P1.x + 30 * Scale) >>)
                    EXCEPT !.lastSplit = t] >>,
             << 1 >>, InitialFood, AtRest)

\* One player half a second after its latest split, which divided its large
\* cell and left alone a cell too small to split. The small cell has been
\* merge-eligible for a while; one of the fresh halves lies almost on it.
Mixed ==
    LET t == Epoch - 500
        small == [NewCell(P1.x, P1.y, 60 * MassScale, t - MergeCooldown)
                     EXCEPT !.canMerge = TRUE]
        half(x) == [NewCell(x, P1.y, 170 * MassScale, t) EXCEPT !.canMerge = FALSE]
    IN World(<< [Established("bob", << small, half(P1.x + 200 * Scale),
                                      half(P1.x + 3 * Scale) >>)
                    EXCEPT !.lastSplit = t] >>,
             << 1 >>, InitialFood, AtRest)

\* One player ten seconds after a split made towards the top left corner of
\* the world: constrainToWorld has put both halves, which have the same
\* radius, on the same spot in the corner, where they have come to rest
Stacked ==
    LET t == Epoch - MergeCooldown
        r == AtLeftWall(225 * MassScale)
        half == [NewCell(r, r, 225 * MassScale, t) EXCEPT !.canMerge = FALSE]
    IN World(<< [Established("bob", << half, half >>) EXCEPT !.lastSplit = t] >>,
             << 1 >>, InitialFood, AtRest)

\* One plain player that has just joined, with three food items around its
\* cell: two at distance 8, inside (cell.size + food.size) / 2, and one at
\* distance 15
Feast ==
    World(<< SpawnedPlayer("bob", P1.x, P1.y, Epoch) >>, << 1 >>,
          << RandomFood([x |-> P1.x + 8 * Scale, y |-> P1.y]),
             RandomFood([x |-> P1.x, y |-> P1.y + 8 * Scale]),
             RandomFood([x |-> P1.x + 15 * Scale, y |-> P1.y]) >>, AtRest)

InitWorlds ==
    { Constructed, Lone, WallDuel, Halves, Mixed, Feast, Stacked }
      \cup { DuelAt(m[1], m[2], P1.x, P1.y) : m \in DuelMasses }

Init ==
    /\ now = Epoch
    /\ lastUpdate = Epoch
    /\ \E w \in InitWorlds :
          /\ players = w.players
          /\ order = w.order
          /\ food = w.food
          /\ pc = w.pc
          /\ tick = w.tick
          /\ settled = GameState(w.players, w.order, w.food, Epoch)
    /\ last = [op |-> "init"]
    /\ budget = [events |-> 0, ticks |-> 0]
    /\ cplayers = << >>
    /\ grid = {}
    /\ gs = GoServer({})
    /\ foodWorld = NoFoodWorld
    /\ srv = NoServer

(***************************************************************************)
(* Socket handlers (app.js) and the GameWorld methods they call.           *)
(***************************************************************************)
Idle == pc = "idle"
\* The exploration counts the events that change the world
SpendEvent ==
    budget' = IF << players', order', food' >> # << players, order, food >>
              THEN [budget EXCEPT !.events = budget.events + 1]
              ELSE budget
MayHandle == Idle /\ budget.events < MaxEvents

WithPlayer(id, p) == [q \in Joined \cup {id} |-> IF q = id THEN p ELSE players[q]]
\* GameWorld.removePlayer with "this.players.delete(playerId)" left out
PlayerKept(id) == players

WithoutPlayer(id) == [q \in Joined \ {id} |-> players[q]]

\* socket.on('join-game') with a valid name: new Player, GameWorld.addPlayer.
\* findSafeSpawnPosition returns a random point, safe or (after ten failed
\* attempts) not.
Join(id, name, pt) ==
    /\ MayHandle
    /\ players' = WithPlayer(id, SpawnedPlayer(name, pt.x, pt.y, now))
    /\ order' = IF id \in Joined THEN order ELSE Append(order, id)
    /\ last' = [op |-> "join", id |-> id]
    /\ UNCHANGED << now, lastUpdate, food, pc, tick >>
    /\ SpendEvent
    /\ UNCHANGED << settled, cplayers, grid, gs, foodWorld, srv >>

\* Math.max(-1, Math.min(1, data.x))
ClampAxis(v) == Max(-1, Min(1, v))

\* GameWorld.updatePlayerMovement
UpdatePlayerMovement(ps, id, targetX, targetY) ==
    IF id \in DOMAIN ps /\ ps[id].alive /\ Len(ps[id].cells) > 0
    THEN LET center == CenterPosition(ps[id].cells)
             worldX == Num({center.x}, center.x + targetX * 300 * Scale)
             worldY == Num({center.y}, center.y + targetY * 300 * Scale)
         IN [ps EXCEPT ![id] = UpdateMovement(ps[id], worldX, worldY)]
    ELSE ps

\* socket.on('move')
MoveHandler(ps, id, data) ==
    IF id \notin DOMAIN ps \/ data.kind # "num" THEN ps
    ELSE UpdatePlayerMovement(ps, id, ClampAxis(data.x), ClampAxis(data.y))

Move(id, data) ==
    /\ MayHandle
    /\ players' = MoveHandler(players, id, data)
    /\ last' = [op |-> "move", id |-> id, data |-> data]
    /\ UNCHANGED << now, lastUpdate, order, food, pc, tick >>
    /\ SpendEvent
    /\ UNCHANGED << settled, cplayers, grid, gs, foodWorld, srv >>

\* GameWorld.splitPlayer
SplitPlayer(ps, id, t) ==
    IF id \notin DOMAIN ps THEN ps
    ELSE [ps EXCEPT ![id] = SplitPlayerCells(ps[id], t)]

\* socket.on('split')
Split(id) ==
    /\ MayHandle
    /\ players' = SplitPlayer(players, id, now)
    /\ last' = [op |-> "split", id |-> id, before |-> players,
                ok |-> (id \in Joined /\ SplitSucceeds(players[id], now))]
    /\ UNCHANGED << now, lastUpdate, order, food, pc, tick >>
    /\ SpendEvent
    /\ UNCHANGED << settled, cplayers, grid, gs, foodWorld, srv >>

\* GameWorld.removePlayer scattering one piece at least, whatever the mass
RemovalExplosionOfOnePiece(p, ds) ==
    LET center == CenterPosition(p.cells)
    IN FoodExplosion(center.x, center.y, Max(TotalMass(p.cells), 20 * MassScale), ds)

\* GameWorld.removePlayer: the food scattered for the removed player
RemovalExplosion(p, ds) ==
    LET center == CenterPosition(p.cells)
    IN FoodExplosion(center.x, center.y, TotalMass(p.cells), ds)

\* socket.on('disconnect'): GameWorld.removePlayer, players.delete
Disconnect(id) ==
    /\ MayHandle
    /\ IF id \in Joined
       THEN /\ \E ds \in [1..MaxExplosionFood -> ExplosionDistances] :
                 food' = food \o RemovalExplosion(players[id], ds)
            /\ players' = WithoutPlayer(id)
            /\ order' = SelectSeq(order, LAMBDA q : q # id)
       ELSE UNCHANGED << players, order, food >>
    /\ last' = [op |-> "disconnect", id |-> id]
    /\ UNCHANGED << now, lastUpdate, pc, tick >>
    /\ SpendEvent
    /\ UNCHANGED << settled, cplayers, grid, gs, foodWorld, srv >>

\* Time passing between two handler invocations
ClockAdvance(d) ==
    /\ Idle
    /\ now + d <= Epoch + MaxElapsed
    /\ now' = now + d
    /\ last' = [op |-> "clock"]
    /\ UNCHANGED << lastUpdate, players, order, food, pc, tick, budget >>
    /\ UNCHANGED << settled, cplayers, grid, gs, foodWorld, srv >>

(***************************************************************************)
(* The game loop: GameWorld.update, one action per position in it.         *)
(***************************************************************************)
\* The player the update loop is at
Cur == order[tick.pi]

\* Where update goes after the player at tick.pi: the next player of the Map,
\* or checkCollisions
AfterPlayer ==
    IF tick.pi < Len(order)
    THEN /\ pc' = "update"
         /\ tick' = [tick EXCEPT !.pi = tick.pi + 1, !.ci = 0, !.cj = 0]
    ELSE /\ pc' = "food"
         /\ tick' = [tick EXCEPT !.pi = 0, !.ci = 0, !.cj = 0]

\* setInterval(() => gameWorld.update(), 1000 / TICK_RATE): the head of update
TickStart ==
    /\ Idle
    /\ budget.ticks < MaxTicks
    /\ budget' = [budget EXCEPT !.ticks = budget.ticks + 1]
    /\ lastUpdate' = now
    /\ tick' = [NoTick EXCEPT !.dt = now - lastUpdate, !.pi = IF Len(order) > 0 THEN 1 ELSE 0]
    /\ pc' = IF Len(order) > 0 THEN "update" ELSE "food"
    /\ last' = [op |-> "tickStart"]
    /\ UNCHANGED << now, players, order, food >>
    /\ UNCHANGED << settled, cplayers, grid, gs, foodWorld, srv >>

\* update with both early returns left out
NeverSkipped(p) == FALSE

\* update: "if (!player.alive) continue;" and Player.update's own early return
Skipped(p) == ~p.alive \/ ~p.spawned \/ Len(p.cells) = 0

\* update, loop body for a player that is skipped
UpdateSkip ==
    /\ pc = "update"
    /\ Skipped(players[Cur])
    /\ AfterPlayer
    /\ last' = [op |-> "skip", id |-> Cur]
    /\ UNCHANGED << now, lastUpdate, players, order, food, budget >>
    /\ UNCHANGED << settled, cplayers, grid, gs, foodWorld, srv >>

\* update, loop body: Player.update up to handleCellInteractions
UpdateIntegrate ==
    /\ pc = "update"
    /\ ~Skipped(players[Cur])
    /\ players' = [players EXCEPT ![Cur] = Integrate(players[Cur], tick.dt, now)]
    /\ LET n == Len(players[Cur].cells)
       IN IF n <= 1
          THEN pc' = "score" /\ tick' = tick
          ELSE pc' = "interact" /\ tick' = [tick EXCEPT !.ci = n, !.cj = n - 1]
    /\ last' = [op |-> "integrate", id |-> Cur, before |-> players[Cur].cells]
    /\ UNCHANGED << now, lastUpdate, order, food, budget >>
    /\ UNCHANGED << settled, cplayers, grid, gs, foodWorld, srv >>

\* Player.handleCellInteractions: one iteration of the inner loop, then the
\* loop control ("break" after a merge leaves the inner loop)
UpdateInteract ==
    /\ pc = "interact"
    /\ \E ang \in NudgeAngles :
         LET r == InteractPair(players[Cur].cells, tick.ci, tick.cj, ang)
             i == IF r.merged \/ tick.cj = 1 THEN tick.ci - 1 ELSE tick.ci
             j == IF r.merged \/ tick.cj = 1 THEN tick.ci - 2 ELSE tick.cj - 1
         IN /\ players' = [players EXCEPT ![Cur].cells = r.cells]
            /\ IF j >= 1
               THEN pc' = "interact" /\ tick' = [tick EXCEPT !.ci = i, !.cj = j]
               ELSE pc' = "score" /\ tick' = [tick EXCEPT !.ci = 0, !.cj = 0]
            /\ last' = [op |-> "interact", id |-> Cur, merged |-> r.merged,
                        i |-> tick.ci, j |-> tick.cj, before |-> players[Cur].cells]
    /\ UNCHANGED << now, lastUpdate, order, food, budget >>
    /\ UNCHANGED << settled, cplayers, grid, gs, foodWorld, srv >>

\* Player.update after handleCellInteractions, then player.constrainToWorld
UpdateScore ==
    /\ pc = "score"
    /\ players' = [players EXCEPT ![Cur] = ConstrainToWorld(ScoreAndGrowth(players[Cur]))]
    /\ AfterPlayer
    /\ last' = [op |-> "score", id |-> Cur, before |-> players[Cur]]
    /\ UNCHANGED << now, lastUpdate, order, food, budget >>
    /\ UNCHANGED << settled, cplayers, grid, gs, foodWorld, srv >>

\* checkCollisions: playerArray and the player-against-food loops
CollideFood ==
    /\ pc = "food"
    /\ LET arr == PlayerArray(players, order)
           r == WorldFoodScan(players, arr, 1, food, << >>)
       IN /\ players' = r.players
          /\ food' = r.foods
          /\ IF Len(arr) >= 2
             THEN pc' = "pvp" /\ tick' = [tick EXCEPT !.arr = arr, !.ai = 1, !.aj = 2]
             ELSE pc' = "maintain" /\ tick' = [tick EXCEPT !.arr = arr]
          /\ last' = [op |-> "food", eats |-> r.log, before |-> players,
                      foodBefore |-> food]
    /\ UNCHANGED << now, lastUpdate, order, budget >>
    /\ UNCHANGED << settled, cplayers, grid, gs, foodWorld, srv >>

\* checkCollisions: one iteration of the player-against-player loops
CollidePlayers ==
    /\ pc = "pvp"
    /\ LET id1 == tick.arr[tick.ai]
           id2 == tick.arr[tick.aj]
           verdict == PairVerdict(players[id1], players[id2])
           a == IF verdict = 2 THEN id2 ELSE id1
           b == IF verdict = 2 THEN id1 ELSE id2
           r == Eat(players[a], players[b])
           center == CenterPosition(players[b].cells)
           totalMass == TotalMass(players[b].cells)
       IN /\ IF verdict = 0
             THEN /\ UNCHANGED << players, food >>
                  /\ last' = [op |-> "pvp", eaten |-> FALSE, id1 |-> id1, id2 |-> id2,
                              before |-> players]
             ELSE \E ds \in [1..MaxExplosionFood -> ExplosionDistances] :
                    LET pieces == FoodExplosion(center.x, center.y, totalMass, ds)
                    IN /\ players' = [players EXCEPT ![a] = r.eater, ![b] = r.victim]
                       /\ food' = food \o pieces
                       /\ last' = [op |-> "pvp", eaten |-> TRUE, id1 |-> id1, id2 |-> id2,
                                   eater |-> a, victim |-> b, k |-> r.k, l |-> r.l,
                                   before |-> players, pieces |-> pieces]
          /\ IF tick.aj < Len(tick.arr)
             THEN pc' = "pvp" /\ tick' = [tick EXCEPT !.aj = tick.aj + 1]
             ELSE IF tick.ai + 2 <= Len(tick.arr)
             THEN pc' = "pvp" /\ tick' = [tick EXCEPT !.ai = tick.ai + 1, !.aj = tick.ai + 2]
             ELSE pc' = "maintain" /\ tick' = [tick EXCEPT !.ai = 0, !.aj = 0]
    /\ UNCHANGED << now, lastUpdate, order, budget >>
    /\ UNCHANGED << settled, cplayers, grid, gs, foodWorld, srv >>

\* GameWorld.maintainFood without the limit of 5 items per update
SpawnCountUncapped(targetCount, currentCount) ==
    IF currentCount < targetCount THEN targetCount - currentCount ELSE 0

\* GameWorld.maintainFood: how many items are spawned
SpawnCount(targetCount, currentCount) ==
    IF currentCount < targetCount THEN Min(MaxFoodPerTick, targetCount - currentCount) ELSE 0

\* GameWorld.maintainFood, the end of update
MaintainFood ==
    /\ pc = "maintain"
    /\ \E pts \in [1..SpawnCount(FoodTarget, Len(food)) -> FoodPoints] :
         /\ food' = food \o [i \in 1..SpawnCount(FoodTarget, Len(food)) |-> RandomFood(pts[i])]
         /\ last' = [op |-> "maintain", added |-> SpawnCount(FoodTarget, Len(food))]
    /\ pc' = "idle"
    /\ tick' = NoTick
    /\ settled' = GameState(players, order, food', now)
    /\ UNCHANGED << now, lastUpdate, players, order, budget >>
    /\ UNCHANGED << cplayers, grid, gs, foodWorld, srv >>

\* setInterval(() => io.emit('game-update', gameWorld.getGameState()), 50):
\* a timer callback, run between two other callbacks
Broadcast ==
    /\ Idle
    /\ Joined # {}
    /\ last' = [op |-> "broadcast", state |-> GameState(players, order, food, now)]
    /\ UNCHANGED << now, lastUpdate, players, order, food, pc, tick, budget >>
    /\ UNCHANGED << settled, cplayers, grid, gs, foodWorld, srv >>

Next ==
    \/ \E id \in PlayerIds, j \in JoinInputs : Join(id, j.name, j.pt)
    \/ \E id \in PlayerIds, data \in MovePayloads : Move(id, data)
    \/ \E id \in PlayerIds : Split(id)
    \/ \E id \in PlayerIds : Disconnect(id)
    \/ \E d \in ClockSteps : ClockAdvance(d)
    \/ TickStart
    \/ UpdateSkip
    \/ UpdateIntegrate
    \/ UpdateInteract
    \/ UpdateScore
    \/ CollideFood
    \/ CollidePlayers
    \/ MaintainFood
    \/ Broadcast

Spec == Init /\ [][Next]_vars

(***************************************************************************)
(* The cluster worker (cluster-server.js): single-cell players of constant *)
(* mass kept in a spatial grid of 500 x 500 buckets.  Lengths are in       *)
(* tenths as above, velocities in tenths per frame of 1/60 s.              *)
(***************************************************************************)
\* Math.floor(v / this.cellSize), cellSize = 500
GridIndex(v) == IF v = NaN THEN NaN ELSE v \div (500 * Scale)

\* SpatialGrid.getCell: the key "col,row" as the pair << col, row >>
GetCell(x, y) == << GridIndex(x), GridIndex(y) >>

\* SpatialGrid.addPlayer
GridAddPlayer(g, id, x, y) == g \cup { << GetCell(x, y), id >> }

\* SpatialGrid.removePlayer: the bucket is looked up from the COORDINATES x, y
GridRemovePlayer(g, id, x, y) == g \ { << GetCell(x, y), id >> }

\* SpatialGrid.getNearbyPlayers: with a NaN centre neither loop runs
GetNearbyPlayers(g, x, y, radius) ==
    IF x = NaN \/ y = NaN THEN {}
    ELSE { e[2] : e \in { f \in g : /\ f[1][1] # NaN /\ f[1][2] # NaN
                                    /\ Abs(f[1][1] - GridIndex(x)) <= radius
                                    /\ Abs(f[1][2] - GridIndex(y)) <= radius } }

\* new Player(id, name, x, y) of cluster-server.js
ClusterPlayer(x, y, t) ==
    [x |-> x, y |-> y, vx |-> 0, vy |-> 0, mass |-> 400 * MassScale,
     size |-> SqrtMass(400 * MassScale), lastUpdate |-> t, gridCell |-> GetCell(x, y)]

\* Player.update of cluster-server.js, the player's part
ClusterMoved(p, t) ==
    LET \* this.x += this.vx * deltaTime * 60, with deltaTime = dt / 1000
        Advance(x, v, dt) == IF x = NaN \/ v = NaN THEN NaN ELSE x + TDiv(v * dt * 6, 100)
        \* Math.max(radius, Math.min(WORLD_WIDTH - radius, x))
        ClampToWorld(x, radius, width) ==
            IF x = NaN THEN NaN ELSE Max(radius, Min(width - radius, x))
        x == ClampToWorld(Advance(p.x, p.vx, t - p.lastUpdate), p.size \div 2, WorldWidth)
        y == ClampToWorld(Advance(p.y, p.vy, t - p.lastUpdate), p.size \div 2, WorldHeight)
    IN [p EXCEPT !.x = x, !.y = y, !.gridCell = GetCell(x, y),
                 !.size = SqrtMass(p.mass), !.lastUpdate = t]

\* Player.update of cluster-server.js, the grid's part: removePlayer is handed
\* the two numbers of the old key "col,row" where it expects coordinates
ClusterRegrid(g, id, p, q) ==
    IF q.gridCell # p.gridCell
    THEN GridAddPlayer(GridRemovePlayer(g, id, p.gridCell[1], p.gridCell[2]), id, q.x, q.y)
    ELSE g

\* players.forEach(player => player.update()) over the ids of s
RECURSIVE UpdateAll(_, _, _, _)
UpdateAll(ps, g, s, t) ==
    IF s = {} THEN [players |-> ps, grid |-> g]
    ELSE LET id == CHOOSE i \in s : \A j \in s : i <= j
             q == ClusterMoved(ps[id], t)
         IN UpdateAll([ps EXCEPT ![id] = q], ClusterRegrid(g, id, ps[id], q), s \ {id}, t)

\* socket.on('move') of cluster-server.js, for a connected player and a
\* payload that is not missing
ClusterSteer(p, data) ==
    LET \* data.x || 0 and the clamp: a string that is not a number goes
        \* through || and Math.min turns it into NaN
        Axis(axis) == IF data.kind = "num" THEN ClampAxis(data[axis])
                      ELSE IF axis = "x" THEN NaN ELSE 0
        \* x * speed
        Times(a, speed) == IF a = NaN THEN NaN ELSE a * speed
        speed == Max(1 * Scale, 5 * Scale - TDiv(p.size - 20 * Scale, 30))
    IN [p EXCEPT !.vx = Times(Axis("x"), speed), !.vy = Times(Axis("y"), speed)]

\* The payloads of a cluster move: none, the numbers (1, 0), and
\* { x: "fast" } whose x is a string and whose y is missing
ClusterPayloads == { NoData, [kind |-> "num", x |-> 1, y |-> 0], [kind |-> "bad", x |-> 1] }

\* Math.random() * (WORLD_WIDTH - 100) + 50, for x and y
ClusterSpawnPoints == { [x |-> 480 * Scale, y |-> 100 * Scale],
                        [x |-> 600 * Scale, y |-> 700 * Scale] }

Connected == DOMAIN cplayers

ClusterSpend ==
    budget' = IF << cplayers', grid' >> # << cplayers, grid >>
              THEN [budget EXCEPT !.events = budget.events + 1]
              ELSE budget

\* socket.on('join-game') of cluster-server.js with a valid name
ClusterJoin(id, pt) ==
    /\ budget.events < MaxEvents
    /\ cplayers' = [q \in Connected \cup {id} |->
                      IF q = id THEN ClusterPlayer(pt.x, pt.y, now) ELSE cplayers[q]]
    /\ grid' = GridAddPlayer(grid, id, pt.x, pt.y)
    /\ last' = [op |-> "join", id |-> id]
    /\ UNCHANGED << now, gs, foodWorld, srv, lastUpdate, players, order, food, pc, tick, settled >>
    /\ ClusterSpend

ClusterMove(id, data) ==
    /\ budget.events < MaxEvents
    /\ cplayers' = IF id \notin Connected \/ data.kind = "none" THEN cplayers
                   ELSE [cplayers EXCEPT ![id] = ClusterSteer(cplayers[id], data)]
    /\ last' = [op |-> "move", id |-> id, data |-> data]
    /\ UNCHANGED << now, grid, gs, foodWorld, srv, lastUpdate, players, order, food, pc, tick, settled >>
    /\ ClusterSpend

\* socket.on('split') of cluster-server.js: the handler has no body
ClusterSplit(id) ==
    /\ budget.events < MaxEvents
    /\ last' = [op |-> "split", id |-> id]
    /\ UNCHANGED << now, cplayers, grid, budget, gs, foodWorld, srv,
                 lastUpdate, players, order, food, pc, tick, settled >>

\* socket.on('disconnect') of cluster-server.js
ClusterDisconnect(id) ==
    /\ budget.events < MaxEvents
    /\ IF id \in Connected
       THEN /\ grid' = GridRemovePlayer(grid, id, cplayers[id].x, cplayers[id].y)
            /\ cplayers' = [q \in Connected \ {id} |-> cplayers[q]]
       ELSE UNCHANGED << cplayers, grid >>
    /\ last' = [op |-> "disconnect", id |-> id, was |-> id \in Connected]
    /\ UNCHANGED << now, gs, foodWorld, srv, lastUpdate, players, order, food, pc, tick, settled >>
    /\ ClusterSpend

\* setInterval(() => players.forEach(player => player.update()), 1000 / 60)
ClusterTick ==
    /\ budget.ticks < MaxTicks
    /\ LET r == UpdateAll(cplayers, grid, Connected, now)
       IN cplayers' = r.players /\ grid' = r.grid
    /\ budget' = [budget EXCEPT !.ticks = budget.ticks + 1]
    /\ last' = [op |-> "tick"]
    /\ UNCHANGED << now, gs, foodWorld, srv, lastUpdate, players, order, food, pc, tick, settled >>

\* Time passing between two callbacks of the worker
ClusterClock(d) ==
    /\ now + d <= Epoch + MaxElapsed
    /\ now' = now + d
    /\ last' = [op |-> "clock"]
    /\ UNCHANGED << cplayers, grid, budget, gs, foodWorld, srv,
                 lastUpdate, players, order, food, pc, tick, settled >>

\* A worker after the joins of js, all at time t
RECURSIVE AfterJoins(_, _)
AfterJoins(js, t) ==
    IF js = << >> THEN [players |-> << >>, grid |-> {}]
    ELSE LET w == AfterJoins(SubSeq(js, 1, Len(js) - 1), t)
             j == js[Len(js)]
         IN [players |-> [q \in DOMAIN w.players \cup {j.id} |->
                            IF q = j.id THEN ClusterPlayer(j.pt.x, j.pt.y, t) ELSE w.players[q]],
             grid |-> GridAddPlayer(w.grid, j.id, j.pt.x, j.pt.y)]

\* The workers the exploration starts from: empty, one player, two players
ClusterWorlds ==
    { AfterJoins(<< >>, Epoch),
      AfterJoins(<< [id |-> 1, pt |-> [x |-> 600 * Scale, y |-> 700 * Scale]] >>, Epoch),
      AfterJoins(<< [id |-> 1, pt |-> [x |-> 600 * Scale, y |-> 700 * Scale]],
                    [id |-> 2, pt |-> [x |-> 480 * Scale, y |-> 100 * Scale]] >>, Epoch) }

ClusterInit ==
    /\ now = Epoch
    /\ lastUpdate = Epoch
    /\ players = Constructed.players
    /\ order = Constructed.order
    /\ food = Constructed.food
    /\ pc = Constructed.pc
    /\ tick = Constructed.tick
    /\ settled = GameState(Constructed.players, Constructed.order, Constructed.food, Epoch)
    /\ gs = GoServer({})
    /\ foodWorld = NoFoodWorld
    /\ srv = NoServer
    /\ \E w \in ClusterWorlds : cplayers = w.players /\ grid = w.grid
    /\ last = [op |-> "init"]
    /\ budget = [events |-> 0, ticks |-> 0]

ClusterNext ==
    \/ \E id \in PlayerIds, pt \in ClusterSpawnPoints : ClusterJoin(id, pt)
    \/ \E id \in PlayerIds, data \in ClusterPayloads : ClusterMove(id, data)
    \/ \E id \in PlayerIds : ClusterSplit(id)
    \/ \E id \in PlayerIds : ClusterDisconnect(id)
    \/ ClusterTick
    \/ \E d \in ClockSteps : ClusterClock(d)

ClusterSpec == ClusterInit /\ [][ClusterNext]_vars

(***************************************************************************)
(* The Go server (server-go/main.go): the goroutines that take the         *)
(* GameServer mutex, a sync.RWMutex.  gs.readers are the goroutines        *)
(* holding RLock, gs.pending the connection goroutines blocked in Lock,    *)
(* gs.members the keys of gs.players, gs.stalled the clients whose socket  *)
(* takes no more bytes (WriteJSON sets no deadline and blocks on them),    *)
(* gs.towrite the players the leaderboard loop has still to write to.      *)
(* The game-update goroutine copies the players under RLock and writes     *)
(* after RUnlock; it is left out.                                          *)
(***************************************************************************)
\* Player.Mass: set when the player is created, and never written again
GoMass == 400

\* sync.RWMutex.RLock returns: no writer holds the lock (a writer holds it
\* only inside one step here) and none is blocked in Lock, since a blocked
\* Lock makes new RLock calls wait
CanRLock(g) == g.pending = {}

\* sync.RWMutex.Lock returns: no reader holds the lock
CanLock(g) == g.readers = {}

\* case <-ticker.C of the game update loop: UpdateGame is entered and calls
\* gs.mutex.RLock()
UpdateGameCall ==
    /\ gs.tick = "idle"
    /\ budget.ticks < MaxTicks
    /\ gs' = [gs EXCEPT !.tick = "rlock"]
    /\ budget' = [budget EXCEPT !.ticks = budget.ticks + 1]
    /\ last' = [op |-> "updateGame"]
    /\ UNCHANGED << now, lastUpdate, players, order, food, pc, tick, settled,
                 cplayers, grid, foodWorld, srv >>

\* UpdateGame: RLock returns, the players are copied
UpdateGameCopy ==
    /\ gs.tick = "rlock"
    /\ CanRLock(gs)
    /\ gs' = [gs EXCEPT !.tick = "copy", !.readers = gs.readers \cup {"tick"}]
    /\ last' = [op |-> "copy"]
    /\ UNCHANGED << budget, now, lastUpdate, players, order, food, pc, tick, settled,
                 cplayers, grid, foodWorld, srv >>

\* UpdateGame: RUnlock, then the loop over the copied players, which takes
\* only the player mutexes and the grid mutex, and the return
UpdateGameRun ==
    /\ gs.tick = "copy"
    /\ gs' = [gs EXCEPT !.tick = "idle", !.readers = gs.readers \ {"tick"}]
    /\ last' = [op |-> "updated"]
    /\ UNCHANGED << budget, now, lastUpdate, players, order, food, pc, tick, settled,
                 cplayers, grid, foodWorld, srv >>

\* case <-ticker.C of the leaderboard loop, up to the RLock of line 499:
\* playerCount is not 0, GetLeaderboard takes its own RLock, collects the
\* players in the order the range over the map yields them, releases the
\* lock and keeps the first 10 (it does not sort)
LeaderboardCall ==
    /\ gs.board = "idle"
    /\ gs.members # {}
    /\ CanRLock(gs)
    /\ \E ranged \in [1..Cardinality(gs.members) -> gs.members] :
          /\ \A k, l \in DOMAIN ranged : ranged[k] = ranged[l] => k = l
          /\ gs' = [gs EXCEPT !.board = "rlock",
                              !.listed = SubSeq(ranged, 1, Min(10, Len(ranged)))]
    /\ last' = [op |-> "leaderboard"]
    /\ UNCHANGED << budget, now, lastUpdate, players, order, food, pc, tick, settled,
                 cplayers, grid, foodWorld, srv >>

\* The leaderboard loop: RLock returns, the range over gs.players starts
LeaderboardLock ==
    /\ gs.board = "rlock"
    /\ CanRLock(gs)
    /\ gs' = [gs EXCEPT !.board = "write", !.readers = gs.readers \cup {"board"},
                        !.towrite = gs.members]
    /\ last' = [op |-> "locked"]
    /\ UNCHANGED << budget, now, lastUpdate, players, order, food, pc, tick, settled,
                 cplayers, grid, foodWorld, srv >>

\* The leaderboard loop: player.Connection.WriteJSON returns for a client
\* that is not stalled (the range order of a Go map is arbitrary)
LeaderboardWrite(id) ==
    /\ gs.board = "write"
    /\ id \in gs.towrite \ gs.stalled
    /\ gs' = [gs EXCEPT !.towrite = gs.towrite \ {id}]
    /\ last' = [op |-> "written", id |-> id,
                leaderboard |-> [k \in 1..Len(gs.listed) |->
                                   [id |-> gs.listed[k], score |-> GoMass \div 4]]]
    /\ UNCHANGED << budget, now, lastUpdate, players, order, food, pc, tick, settled,
                 cplayers, grid, foodWorld, srv >>

\* The leaderboard loop: the range is over, RUnlock
LeaderboardUnlock ==
    /\ gs.board = "write"
    /\ gs.towrite = {}
    /\ gs' = [gs EXCEPT !.board = "idle", !.readers = gs.readers \ {"board"}]
    /\ last' = [op |-> "unlocked"]
    /\ UNCHANGED << budget, now, lastUpdate, players, order, food, pc, tick, settled,
                 cplayers, grid, foodWorld, srv >>

\* handleConnection: a join-game message or a read error makes the
\* connection's goroutine call AddPlayer or RemovePlayer, that is, Lock
PlayerChangeCall(id) ==
    /\ id \notin gs.pending
    /\ budget.events < MaxEvents
    /\ gs' = [gs EXCEPT !.pending = gs.pending \cup {id}]
    /\ budget' = [budget EXCEPT !.events = budget.events + 1]
    /\ last' = [op |-> "change", id |-> id]
    /\ UNCHANGED << now, lastUpdate, players, order, food, pc, tick, settled,
                 cplayers, grid, foodWorld, srv >>

\* AddPlayer / RemovePlayer: Lock returns, the map is changed, Unlock
PlayerChangeApply(id) ==
    /\ id \in gs.pending
    /\ CanLock(gs)
    /\ gs' = [gs EXCEPT !.pending = gs.pending \ {id},
                        !.members = IF id \in gs.members THEN gs.members \ {id}
                                    ELSE gs.members \cup {id}]
    /\ last' = [op |-> "changed", id |-> id]
    /\ UNCHANGED << budget, now, lastUpdate, players, order, food, pc, tick, settled,
                 cplayers, grid, foodWorld, srv >>

\* The network: a client stops reading, or reads again
ClientStalls(id) ==
    /\ gs' = [gs EXCEPT !.stalled = IF id \in gs.stalled THEN gs.stalled \ {id}
                                    ELSE gs.stalled \cup {id}]
    /\ last' = [op |-> "network", id |-> id]
    /\ UNCHANGED << budget, now, lastUpdate, players, order, food, pc, tick, settled,
                 cplayers, grid, foodWorld, srv >>

GoInit ==
    /\ now = Epoch
    /\ lastUpdate = Epoch
    /\ players = Constructed.players
    /\ order = Constructed.order
    /\ food = Constructed.food
    /\ pc = Constructed.pc
    /\ tick = Constructed.tick
    /\ settled = GameState(Constructed.players, Constructed.order, Constructed.food, Epoch)
    /\ cplayers = << >>
    /\ grid = {}
    /\ \E members \in { {}, {1}, {1, 2} } : gs = GoServer(members)
    /\ foodWorld = NoFoodWorld
    /\ srv = NoServer
    /\ last = [op |-> "init"]
    /\ budget = [events |-> 0, ticks |-> 0]

GoNext ==
    \/ UpdateGameCall
    \/ UpdateGameCopy
    \/ UpdateGameRun
    \/ LeaderboardCall
    \/ LeaderboardLock
    \/ \E id \in PlayerIds : LeaderboardWrite(id)
    \/ LeaderboardUnlock
    \/ \E id \in PlayerIds : PlayerChangeCall(id)
    \/ \E id \in PlayerIds : PlayerChangeApply(id)
    \/ \E id \in PlayerIds : ClientStalls(id)

GoSpec == GoInit /\ [][GoNext]_vars

(***************************************************************************)
(* The food population: GameWorld.maintainFood at the end of every update, *)
(* in worlds where nothing is eaten.  The world is its configured target   *)
(* (config.food.count) and the size of its food Map, which createFood-     *)
(* Explosion may have taken above the target.                              *)
(***************************************************************************)
FoodInit ==
    /\ now = Epoch
    /\ lastUpdate = Epoch
    /\ players = Constructed.players
    /\ order = Constructed.order
    /\ food = Constructed.food
    /\ pc = Constructed.pc
    /\ tick = Constructed.tick
    /\ settled = GameState(Constructed.players, Constructed.order, Constructed.food, Epoch)
    /\ cplayers = << >>
    /\ grid = {}
    /\ gs = GoServer({})
    /\ \E t \in 0..MaxFoodCount, n \in 0..MaxFoodSize :
          foodWorld = [targetCount |-> t, size |-> n]
    /\ srv = NoServer
    /\ last = [op |-> "init"]
    /\ budget = [events |-> 0, ticks |-> 0]

\* GameWorld.update in a world without players: maintainFood
FoodTick ==
    /\ foodWorld' = [foodWorld EXCEPT
                       !.size = @ + SpawnCount(foodWorld.targetCount, foodWorld.size)]
    /\ last' = [op |-> "maintainFood", size |-> foodWorld.size]
    /\ UNCHANGED << now, lastUpdate, players, order, food, pc, tick, budget,
                    settled, cplayers, grid, gs, srv >>

\* setInterval(() => gameWorld.update(), 1000 / 60): the update runs again
\* and again
FoodSpec == FoodInit /\ [][FoodTick]_vars /\ WF_vars(FoodTick)

(***************************************************************************)
(* checkCollisions over two players of two cells each.  Each player has a  *)
(* large and a small cell, one on either of two spots that lie far apart,  *)
(* so that a cell meets the cell the other player has on the same spot;    *)
(* either player may have joined first and may still be invulnerable.      *)
(***************************************************************************)
CrossSpots == { P1, [x |-> 400 * Scale, y |-> 100 * Scale] }
CrossLarge == { 900 * MassScale, 1000 * MassScale }
CrossSmall == { 100 * MassScale, 200 * MassScale }

\* The two cells of a player whose large cell is on spot at
CrossCells(at, large, small) ==
    LET other == CHOOSE pt \in CrossSpots : pt # at
    IN << NewCell(other.x, other.y, small, 0), NewCell(at.x, at.y, large, 0) >>

CrossPlayers ==
    { [Established("bob", CrossCells(at, large, small)) EXCEPT !.invulnerable = inv] :
        at \in CrossSpots, large \in CrossLarge, small \in CrossSmall, inv \in BOOLEAN }

CrossInit ==
    /\ now = Epoch
    /\ lastUpdate = Epoch
    /\ \E p \in CrossPlayers, q \in CrossPlayers, ord \in { << 1, 2 >>, << 2, 1 >> } :
          /\ players = << p, q >>
          /\ order = ord
          /\ tick = [NoTick EXCEPT !.arr = ord, !.ai = 1, !.aj = 2]
          /\ settled = GameState(<< p, q >>, ord, << >>, Epoch)
    /\ food = << >>
    /\ pc = "pvp"
    /\ last = [op |-> "init"]
    /\ budget = [events |-> 0, ticks |-> 1]
    /\ cplayers = << >>
    /\ grid = {}
    /\ gs = GoServer({})
    /\ foodWorld = NoFoodWorld
    /\ srv = NoServer

\* GameWorld.update from the player loops of checkCollisions to its end
CrossNext == CollidePlayers \/ MaintainFood

CrossSpec == CrossInit /\ [][CrossNext]_vars

(***************************************************************************)
(* server-go/main.go: the GameServer with its spatial grid, and every      *)
(* goroutine that takes one of its locks: one connection handler per       *)
(* client, the game update loop, the broadcast loop and the leaderboard    *)
(* loop.  Player.mutex and SpatialGrid.mutex are taken and released within *)
(* one step, since the code holding them neither takes another lock nor    *)
(* writes to the network; GameServer.mutex is held across steps by         *)
(* AddPlayer and RemovePlayer, which take SpatialGrid.mutex under it, and  *)
(* by the leaderboard loop, which writes to the clients under it.  A       *)
(* position is the grid column of player.X; two columns are in play, each  *)
(* within the radius of GetNearbyPlayers around the other.                 *)
(***************************************************************************)
Buckets == {0, 1}
Loops == {"tick", "cast", "board"}
Conn == [id \in PlayerIds |-> IF id = 1 THEN "conn1" ELSE "conn2"]
Routines == { Conn[id] : id \in PlayerIds } \cup Loops

\* NewGameServer, and the goroutines main starts and handleConnection runs in
StartedServer ==
    [players |-> {}, cells |-> {}, removed |-> {},
     X |-> [id \in PlayerIds |-> 0], GridCell |-> [id \in PlayerIds |-> 0],
     moving |-> [id \in PlayerIds |-> FALSE],
     pc |-> [g \in Routines |-> IF g \in Loops THEN "idle" ELSE "open"],
     at |-> [g \in Routines |-> IF g = "conn1" THEN 1 ELSE IF g = "conn2" THEN 2 ELSE 0],
     todo |-> [g \in Loops |-> {}]]

\* sync.RWMutex of the GameServer: who holds it for writing, who has called
\* Lock and waits, who holds it for reading across steps
Writers(s) == { g \in Routines : s.pc[g] \in {"AddPlayer.grid", "RemovePlayer.grid"} }
Pending(s) == { g \in Routines : s.pc[g] \in {"AddPlayer", "RemovePlayer"} }

\* Readers with the broadcast loop holding its RLock to the end of its
\* loop, as the leaderboard loop does
ReadersThroughBroadcast(s) ==
    { g \in Routines :
        \/ s.pc[g] = "leaderboard.write"
        \/ g = "cast" /\ s.pc[g] # "idle" }

Readers(s) == { g \in Routines : s.pc[g] = "leaderboard.write" }

\* RLock returns: no writer, and no Lock pending
MayRead(s) == Writers(s) = {} /\ Pending(s) = {}
\* Lock returns
MayWrite(s) == Writers(s) = {} /\ Readers(s) = {}

\* The goroutines that goroutine g, which has called Lock or RLock, waits for
WaitsFor(s, g) ==
    IF s.pc[g] \in {"AddPlayer", "RemovePlayer"} THEN Writers(s) \cup Readers(s)
    ELSE IF s.pc[g] \in {"GetNearbyData.food", "leaderboard.lock"}
    THEN Writers(s) \cup Pending(s)
    ELSE {}

\* SpatialGrid.GetNearbyPlayers(x, y, 2): the players of the buckets at most
\* two columns away
NearbyPlayers(cells, x) ==
    { id \in PlayerIds : \E b \in Buckets : b - x \in -2..2 /\ << b, id >> \in cells }

Goes(g, to) == srv' = [srv EXCEPT !.pc[g] = to]

GridFrame ==
    UNCHANGED << now, lastUpdate, players, order, food, pc, tick, budget,
                 settled, cplayers, grid, gs, foodWorld >>

\* handleConnection, case "join-game" on a connection without a player: the
\* player is created at a random position and AddPlayer is called
JoinGame(id) ==
    /\ srv.pc[Conn[id]] = "open"
    /\ \E x \in Buckets :
          srv' = [srv EXCEPT !.pc[Conn[id]] = "AddPlayer", !.X[id] = x]
    /\ last' = [op |-> "join-game", id |-> id]
    /\ GridFrame

\* GameServer.AddPlayer: Lock returns, SpatialGrid.AddPlayer is called
AddPlayerLock(id) ==
    /\ srv.pc[Conn[id]] = "AddPlayer"
    /\ MayWrite(srv)
    /\ Goes(Conn[id], "AddPlayer.grid")
    /\ last' = [op |-> "lock", id |-> id]
    /\ GridFrame

\* GameServer.AddPlayer under both locks, and its return
AddPlayerApply(id) ==
    /\ srv.pc[Conn[id]] = "AddPlayer.grid"
    /\ srv' = [srv EXCEPT !.players = @ \cup {id},
                          !.cells = @ \cup {<< srv.X[id], id >>},
                          !.GridCell[id] = srv.X[id],
                          !.pc[Conn[id]] = "joined"]
    /\ last' = [op |-> "added", id |-> id]
    /\ GridFrame

\* handleConnection, case "move" with a vector that is not zero:
\* GameServer.UpdatePlayer looks the player up under RLock and sets its
\* velocity under the player's mutex
MoveMessage(id) ==
    /\ srv.pc[Conn[id]] = "joined"
    /\ MayRead(srv)
    /\ srv' = [srv EXCEPT !.moving[id] = IF id \in srv.players THEN TRUE ELSE @]
    /\ last' = [op |-> "move", id |-> id]
    /\ GridFrame

\* handleConnection: ReadJSON fails; RemovePlayer is called if there is a player
ReadError(id) ==
    /\ srv.pc[Conn[id]] \in {"open", "joined"}
    /\ Goes(Conn[id], IF srv.pc[Conn[id]] = "open" THEN "closed" ELSE "RemovePlayer")
    /\ last' = [op |-> "read error", id |-> id]
    /\ GridFrame

\* GameServer.RemovePlayer: Lock returns
RemovePlayerLock(g) ==
    /\ srv.pc[g] = "RemovePlayer"
    /\ MayWrite(srv)
    /\ Goes(g, "RemovePlayer.grid")
    /\ last' = [op |-> "lock", id |-> srv.at[g]]
    /\ GridFrame

\* GameServer.RemovePlayer under the lock: SpatialGrid.RemovePlayer (which
\* deletes from the bucket player.GridCell names), delete, and the return
RemovePlayerApply(g) ==
    /\ srv.pc[g] = "RemovePlayer.grid"
    /\ LET id == srv.at[g]
       IN srv' = [srv EXCEPT
                    !.cells = IF id \in srv.players
                              THEN @ \ {<< srv.GridCell[id], id >>} ELSE @,
                    !.players = @ \ {id},
                    !.removed = @ \cup {id},
                    !.pc[g] = IF g = "cast" THEN "broadcast.loop" ELSE "closed"]
    /\ last' = [op |-> "removed", id |-> srv.at[g]]
    /\ GridFrame

\* case <-ticker.C of the game update loop: UpdateGame copies the players
\* under RLock
TickSnapshot ==
    /\ srv.pc["tick"] = "idle"
    /\ MayRead(srv)
    /\ srv' = [srv EXCEPT !.todo["tick"] = srv.players, !.pc["tick"] = "UpdateGame.loop"]
    /\ last' = [op |-> "tick"]
    /\ GridFrame

\* UpdateGame, loop body up to the test of SpatialGrid.UpdatePlayer: the
\* player is moved under its mutex, and when it has changed column
\* SpatialGrid.RemovePlayer is called
TickMovePlayer ==
    /\ srv.pc["tick"] = "UpdateGame.loop"
    /\ \E id \in srv.todo["tick"] :
       \E x \in (IF srv.moving[id] THEN Buckets ELSE {srv.X[id]}) :
          srv' = [srv EXCEPT !.X[id] = x,
                             !.todo["tick"] = @ \ {id},
                             !.at["tick"] = IF x # srv.GridCell[id] THEN id ELSE 0,
                             !.pc["tick"] = IF x # srv.GridCell[id]
                                            THEN "grid.remove" ELSE "UpdateGame.loop"]
    /\ last' = [op |-> "update"]
    /\ GridFrame

\* SpatialGrid.UpdatePlayer: RemovePlayer under the grid mutex
TickGridRemove ==
    /\ srv.pc["tick"] = "grid.remove"
    /\ LET id == srv.at["tick"]
       IN srv' = [srv EXCEPT !.cells = @ \ {<< srv.GridCell[id], id >>},
                             !.pc["tick"] = "grid.add"]
    /\ last' = [op |-> "grid remove", id |-> srv.at["tick"]]
    /\ GridFrame

\* SpatialGrid.UpdatePlayer: AddPlayer under the grid mutex
TickGridAdd ==
    /\ srv.pc["tick"] = "grid.add"
    /\ LET id == srv.at["tick"]
       IN srv' = [srv EXCEPT !.cells = @ \cup {<< srv.X[id], id >>},
                             !.GridCell[id] = srv.X[id],
                             !.at["tick"] = 0,
                             !.pc["tick"] = "UpdateGame.loop"]
    /\ last' = [op |-> "grid add", id |-> srv.at["tick"]]
    /\ GridFrame

\* UpdateGame returns
TickReturn ==
    /\ srv.pc["tick"] = "UpdateGame.loop"
    /\ srv.todo["tick"] = {}
    /\ Goes("tick", "idle")
    /\ last' = [op |-> "updated"]
    /\ GridFrame

\* case <-ticker.C of the broadcast loop: the players are copied under RLock
CastSnapshot ==
    /\ srv.pc["cast"] = "idle"
    /\ MayRead(srv)
    /\ srv' = [srv EXCEPT !.todo["cast"] = srv.players, !.pc["cast"] = "broadcast.loop"]
    /\ last' = [op |-> "broadcast"]
    /\ GridFrame

\* The broadcast loop is through
CastReturn ==
    /\ srv.pc["cast"] = "broadcast.loop"
    /\ srv.todo["cast"] = {}
    /\ srv' = [srv EXCEPT !.pc["cast"] = "idle", !.at["cast"] = 0]
    /\ last' = [op |-> "broadcast done"]
    /\ GridFrame

\* The broadcast loop takes its next player and calls GetNearbyData, which
\* looks the player up under RLock
CastLookup ==
    /\ srv.pc["cast"] = "broadcast.loop"
    /\ MayRead(srv)
    /\ \E id \in srv.todo["cast"] :
          srv' = [srv EXCEPT !.todo["cast"] = @ \ {id}, !.at["cast"] = id,
                             !.pc["cast"] = IF id \in srv.players
                                            THEN "GetNearbyPlayers" ELSE "send"]
    /\ last' = [op |-> "lookup"]
    /\ GridFrame

\* GetNearbyData for a player that is in the map: its position is read
\* under its mutex, GetNearbyPlayers collects the players of the buckets
\* around it under the grid's RLock, they are copied, each under its mutex,
\* and RLock is called for the food
CastNearby ==
    /\ srv.pc["cast"] = "GetNearbyPlayers"
    /\ Goes("cast", "GetNearbyData.food")
    /\ last' = [op |-> "nearby", id |-> srv.at["cast"],
                nearby |-> NearbyPlayers(srv.cells, srv.X[srv.at["cast"]])]
    /\ GridFrame

\* GetNearbyData collects the food under RLock (if the player was found) and
\* the broadcast loop writes the update to the player's connection; when the
\* write fails it calls RemovePlayer
CastSend ==
    /\ srv.pc["cast"] \in {"GetNearbyData.food", "send"}
    /\ srv.pc["cast"] = "GetNearbyData.food" => MayRead(srv)
    /\ \E ok \in BOOLEAN : Goes("cast", IF ok THEN "broadcast.loop" ELSE "RemovePlayer")
    /\ last' = [op |-> "sent"]
    /\ GridFrame

\* case <-ticker.C of the leaderboard loop with playerCount not 0:
\* GetLeaderboard copies the players under RLock and reads them one by one,
\* then the loop calls RLock
BoardSnapshot ==
    /\ srv.pc["board"] = "idle"
    /\ srv.players # {}
    /\ MayRead(srv)
    /\ Goes("board", "leaderboard.lock")
    /\ last' = [op |-> "leaderboard"]
    /\ GridFrame

\* The leaderboard loop: RLock returns, the writes to the clients start
BoardLock ==
    /\ srv.pc["board"] = "leaderboard.lock"
    /\ MayRead(srv)
    /\ Goes("board", "leaderboard.write")
    /\ last' = [op |-> "locked"]
    /\ GridFrame

\* The leaderboard loop: every write has returned, RUnlock
BoardUnlock ==
    /\ srv.pc["board"] = "leaderboard.write"
    /\ Goes("board", "idle")
    /\ last' = [op |-> "unlocked"]
    /\ GridFrame

GridInit ==
    /\ now = Epoch
    /\ lastUpdate = Epoch
    /\ players = Constructed.players
    /\ order = Constructed.order
    /\ food = Constructed.food
    /\ pc = Constructed.pc
    /\ tick = Constructed.tick
    /\ settled = GameState(Constructed.players, Constructed.order, Constructed.food, Epoch)
    /\ cplayers = << >>
    /\ grid = {}
    /\ gs = GoServer({})
    /\ foodWorld = NoFoodWorld
    /\ srv = StartedServer
    /\ last = [op |-> "init"]
    /\ budget = [events |-> 0, ticks |-> 0]

GridNext ==
    \/ \E id \in PlayerIds : JoinGame(id)
    \/ \E id \in PlayerIds : AddPlayerLock(id)
    \/ \E id \in PlayerIds : AddPlayerApply(id)
    \/ \E id \in PlayerIds : MoveMessage(id)
    \/ \E id \in PlayerIds : ReadError(id)
    \/ \E g \in Routines : RemovePlayerLock(g)
    \/ \E g \in Routines : RemovePlayerApply(g)
    \/ TickSnapshot
    \/ TickMovePlayer
    \/ TickGridRemove
    \/ TickGridAdd
    \/ TickReturn
    \/ CastSnapshot
    \/ CastReturn
    \/ CastLookup
    \/ CastNearby
    \/ CastSend
    \/ BoardSnapshot
    \/ BoardLock
    \/ BoardUnlock

GridSpec == GridInit /\ [][GridNext]_vars

(***************************************************************************)
(* GameWorld.update from the player loops of checkCollisions on, over      *)
(* three single-cell players that the update phase has brought onto one    *)
(* spot, each large enough to eat the next smaller one; then the socket    *)
(* events and the update that follow the deaths.                           *)
(***************************************************************************)
InertIds == {1, 2, 3}
InertMasses ==
    { m \in [InertIds -> {1000 * MassScale, 600 * MassScale, 400 * MassScale}] :
        Cardinality({ m[id] : id \in InertIds }) = 3 }

\* The move message of the study: numbers, as a client sends them
InertMove == [kind |-> "num", x |-> -7, y |-> 1]

InertInit ==
    /\ now = Epoch
    /\ lastUpdate = Epoch
    /\ \E m \in InertMasses :
          LET ps == [id \in InertIds |->
                       Established("bob", << NewCell(P1.x, P1.y, m[id], 0) >>)]
          IN /\ players = ps
             /\ settled = GameState(ps, << 1, 2, 3 >>, << >>, Epoch)
    /\ order = << 1, 2, 3 >>
    /\ tick = [NoTick EXCEPT !.arr = << 1, 2, 3 >>, !.ai = 1, !.aj = 2]
    /\ food = << >>
    /\ pc = "pvp"
    /\ last = [op |-> "init"]
    /\ budget = [events |-> 0, ticks |-> 0]
    /\ cplayers = << >>
    /\ grid = {}
    /\ gs = GoServer({})
    /\ foodWorld = NoFoodWorld
    /\ srv = NoServer

InertNext ==
    \/ \E id \in InertIds : Join(id, "bob", P1)
    \/ \E id \in InertIds : Move(id, InertMove)
    \/ \E id \in InertIds : Split(id)
    \/ \E id \in InertIds : Disconnect(id)
    \/ \E d \in ClockSteps : ClockAdvance(d)
    \/ TickStart
    \/ UpdateSkip
    \/ UpdateIntegrate
    \/ UpdateInteract
    \/ UpdateScore
    \/ CollideFood
    \/ CollidePlayers
    \/ MaintainFood

InertSpec == InertInit /\ [][InertNext]_vars

(***************************************************************************)
(* Properties of player-against-player consumption.                        *)
(***************************************************************************)
\* The step just taken was an iteration of the player loops of
\* checkCollisions in which one player ate the other
Ate == last.op = "pvp" /\ last.eaten
EaterBefore == last.before[last.eater]
VictimBefore == last.before[last.victim]

\* The step just taken was such an iteration and nobody was eaten (the
\* players are then as they were before it)
Spared == last.op = "pvp" /\ ~last.eaten

\* C1: when cell A of one player eats cell B of another in checkCollisions,
\* A's mass afterwards is its mass before plus 0.8 times B's mass before (to
\* the grain of the model's masses), and no other surviving cell changes mass.
C1_EatMassGain ==
    Ate =>
      LET A == EaterBefore.cells[last.k]
          B == VictimBefore.cells[last.l]
          gain == players[last.eater].cells[last.k].mass - A.mass
      IN /\ gain * 10 <= B.mass * 8
         /\ B.mass * 8 < (gain + MassGrain) * 10
         /\ \A q \in Joined \ {last.victim} :
              /\ Len(players[q].cells) = Len(last.before[q].cells)
              /\ \A k \in 1..Len(players[q].cells) :
                   (q # last.eater \/ k # last.k)
                      => players[q].cells[k].mass = last.before[q].cells[k].mass

\* An eat by a player that owns a second cell
C1_Witness == Ate /\ Len(players[last.eater].cells) >= 2

\* The nutrition of the food scattered for the player just eaten
ScatteredNutrition ==
    SumSeq([i \in 1..Len(last.pieces) |-> last.pieces[i].nutritionValue])

\* C2, as stated: when a player is eaten, the nutrition of the food scattered
\* by createFoodExplosion sums to the player's mass before death, within one
\* mass unit.
C2_ScatterSumsToMass ==
    Ate => Abs(ScatteredNutrition - TotalMass(VictimBefore.cells)) <= MassScale

\* C2, amended: when a player of mass M is eaten, createFoodExplosion scatters
\* min(floor(M / 20), 20) items of nutrition 2 each, appended to the food; the
\* nutrition they carry is at most 40 and less than M.
C2_ScatterIsCapped ==
    Ate =>
      LET M == TotalMass(VictimBefore.cells)
          n == Len(last.pieces)
      IN /\ n <= 20
         /\ n * 20 * MassScale <= M
         /\ n < 20 => M < (n + 1) * 20 * MassScale
         /\ \A i \in 1..n : last.pieces[i].nutritionValue = 2 * MassScale
         /\ ScatteredNutrition = n * 2 * MassScale
         /\ ScatteredNutrition < M
         /\ Len(food) >= n
         /\ \A i \in 1..n : food[Len(food) - n + i] = last.pieces[i]

\* A player has been eaten and twenty pieces were scattered for it
C2_Witness == Ate /\ Len(last.pieces) = 20 /\ ScatteredNutrition = 40 * MassScale

\* The scenario of the specification: a single cell of mass 1000 of a on top
\* of a single cell of mass 700 of b, neither player invulnerable
Scenario(a, b) ==
    /\ a.alive /\ b.alive /\ ~a.invulnerable /\ ~b.invulnerable
    /\ Len(a.cells) = 1 /\ Len(b.cells) = 1
    /\ a.cells[1].mass = 1000 * MassScale /\ b.cells[1].mass = 700 * MassScale
    /\ a.cells[1].x = b.cells[1].x /\ a.cells[1].y = b.cells[1].y

\* C3: after player A eats player B, B owns no cell (whether or not the cell
\* overlapped A), B is not alive and A's kills have grown by exactly one; and
\* A of mass 1000 on top of a vulnerable B of mass 700 eats it and ends with
\* mass 1560.
C3_VictimDestroyed ==
    /\ Ate =>
         /\ players[last.victim].cells = << >>
         /\ ~players[last.victim].alive
         /\ players[last.eater].kills = EaterBefore.kills + 1
         /\ Scenario(EaterBefore, VictimBefore)
              => players[last.eater].cells[1].mass = 1560 * MassScale
    /\ Spared =>
         /\ ~Scenario(players[last.id1], players[last.id2])
         /\ ~Scenario(players[last.id2], players[last.id1])

\* A player has been eaten that owned a cell away from every cell of the eater
C3_Witness ==
    /\ Ate
    /\ \E l \in 1..Len(VictimBefore.cells) :
         \A k \in 1..Len(EaterBefore.cells) :
            ~Overlaps(EaterBefore.cells[k], VictimBefore.cells[l])

\* C4: no player is eaten in an iteration in which the eater or the eaten
\* has its invulnerable flag set.
C4_NoEatWhileInvulnerable ==
    Ate => ~EaterBefore.invulnerable /\ ~VictimBefore.invulnerable

\* An invulnerable player has been spared by a player with a cell that
\* overlaps one of its cells and outweighs it by more than the eat ratio
C4_Witness ==
    /\ Spared
    /\ \E a, b \in {last.id1, last.id2} :
         /\ a # b
         /\ players[b].invulnerable /\ ~players[a].invulnerable
         /\ EatingPairs(players[a], players[b]) # {}

\* C5: the cell that eats outweighs the eaten cell by strictly more than the
\* eat ratio 1.2, and two vulnerable players are left as they are only if no
\* cell of one overlaps a cell of the other that it outweighs by more than 1.2.
C5_StrictEatRatio ==
    /\ Ate => EaterBefore.cells[last.k].mass * 10 > VictimBefore.cells[last.l].mass * 12
    /\ (Spared /\ ~players[last.id1].invulnerable /\ ~players[last.id2].invulnerable) =>
         \A a, b \in {last.id1, last.id2} :
            \A k \in 1..Len(players[a].cells) : \A l \in 1..Len(players[b].cells) :
               (a # b /\ Overlaps(players[a].cells[k], players[b].cells[l]))
                  => players[a].cells[k].mass * 10 <= players[b].cells[l].mass * 12

\* Two vulnerable players have been left as they are, a cell of one on a cell
\* of the other with exactly 1.2 times its mass
C5_Witness ==
    /\ Spared
    /\ ~players[last.id1].invulnerable /\ ~players[last.id2].invulnerable
    /\ \E k \in 1..Len(players[last.id1].cells) : \E l \in 1..Len(players[last.id2].cells) :
         /\ Overlaps(players[last.id1].cells[k], players[last.id2].cells[l])
         /\ players[last.id1].cells[k].mass * 10 = players[last.id2].cells[l].mass * 12

(***************************************************************************)
(* Properties of the cells: size, split, merge, containment.               *)
(***************************************************************************)
\* Every cell of every player in the map, as << id, index >>
CellsOfAll == { c \in Joined \X (1..64) : c[2] <= Len(players[c[1]].cells) }
CellAt(c) == players[c[1]].cells[c[2]]

IsSqrtOfMass(s, m) ==
    /\ s * s * MassScale <= m * Scale * Scale
    /\ m * Scale * Scale < (s + 1) * (s + 1) * MassScale

DidSplit == last.op = "split" /\ last.ok

\* C7: a successful split leaves, for each cell of mass M > 64, that cell and
\* one new cell with mass M / 2 each, leaves the other cells their mass, and
\* leaves the player's total mass what it was.
C7_SplitHalvesMass ==
    DidSplit =>
      LET old == last.before[last.id].cells
          new == players[last.id].cells
          n == Len(old)
          divided == SelectSeq([k \in 1..n |-> k], LAMBDA k : old[k].mass > 64 * MassScale)
      IN /\ Len(new) = n + Len(divided)
         /\ \A k \in 1..n :
              IF old[k].mass > 64 * MassScale
              THEN 2 * new[k].mass = old[k].mass
              ELSE new[k].mass = old[k].mass
         /\ \A r \in 1..Len(divided) : 2 * new[n + r].mass = old[divided[r]].mass
         /\ TotalMass(new) = TotalMass(old)

\* A split that divided some cells of the player and not others
C7_Witness ==
    /\ DidSplit
    /\ \E k \in 1..Len(last.before[last.id].cells) :
         last.before[last.id].cells[k].mass > 64 * MassScale
    /\ \E k \in 1..Len(last.before[last.id].cells) :
         last.before[last.id].cells[k].mass <= 64 * MassScale

\* The step just taken was an iteration of handleCellInteractions in which
\* cells[last.i] fused into cells[last.j]
Merged == last.op = "interact" /\ last.merged

\* C8: when two cells of a player with masses M1 and M2 fuse, the player has
\* one cell fewer, the absorbing cell has mass M1 + M2, the absorbed cell is
\* gone from the list, the other cells are untouched, and the total mass of
\* the player is what it was.
C8_MergeAddsMasses ==
    Merged =>
      LET old == last.before
          new == players[last.id].cells
      IN /\ last.j < last.i
         /\ Len(new) = Len(old) - 1
         /\ new[last.j].mass = old[last.i].mass + old[last.j].mass
         /\ \A k \in 1..Len(new) :
              k # last.j => new[k] = old[IF k < last.i THEN k ELSE k + 1]
         /\ TotalMass(new) = TotalMass(old)

\* A hard merge (one of the two cells not yet merge-eligible) in a player
\* with a third cell
C8_Witness ==
    /\ Merged
    /\ ~(last.before[last.i].canMerge /\ last.before[last.j].canMerge)
    /\ Len(last.before) >= 3

\* The average of a1 and a2 weighted with the masses m1 and m2
WeightedAverage(a1, m1, a2, m2) == Num({a1, a2}, TDiv(a1 * m1 + a2 * m2, m1 + m2))

\* C9, as stated: when two cells of a player fuse, the position of the
\* surviving cell is the average of the two positions weighted with the
\* masses the cells had before the merge, and its velocity the same
\* combination of their velocities (to one unit of the model's resolution).
C9_MergedAtWeightedAverage ==
    Merged =>
      LET both == last.before[last.i].canMerge /\ last.before[last.j].canMerge
          pre == IF both THEN Attract(last.before[last.i], last.before[last.j])
                         ELSE [c1 |-> last.before[last.i], c2 |-> last.before[last.j]]
          c1 == pre.c1
          c2 == pre.c2
          m == players[last.id].cells[last.j]
      IN /\ Abs(m.x - WeightedAverage(c1.x, c1.mass, c2.x, c2.mass)) <= 1
         /\ Abs(m.y - WeightedAverage(c1.y, c1.mass, c2.y, c2.mass)) <= 1
         /\ Abs(m.vx - WeightedAverage(c1.vx, c1.mass, c2.vx, c2.mass)) <= 1
         /\ Abs(m.vy - WeightedAverage(c1.vy, c1.mass, c2.vy, c2.mass)) <= 1

\* C10, as stated: when update returns, every cell of every alive player has
\* its centre at least its radius (size / 2) from each wall.
C10_CellsInsideWorld ==
    last.op = "maintain" =>
      \A c \in CellsOfAll :
         players[c[1]].alive =>
            /\ CellAt(c).x >= Radius(CellAt(c))
            /\ CellAt(c).x <= WorldWidth - Radius(CellAt(c))
            /\ CellAt(c).y >= Radius(CellAt(c))
            /\ CellAt(c).y <= WorldHeight - Radius(CellAt(c))

(***************************************************************************)
(* The spatial grid of the cluster worker                                  *)
(***************************************************************************)
\* The buckets that hold an id
BucketsOf(g, id) == { e[1] : e \in { f \in g : f[2] = id } }

\* C11: for every connected player, whatever joins, moves, ticks and
\* disconnects came before, a range query with ring radius 1 centred on the
\* player's current position returns a set that contains the player's own id
C11_QueryFindsSelf ==
    \A id \in Connected :
        id \in GetNearbyPlayers(grid, cplayers[id].x, cplayers[id].y, 1)

\* C12: after every tick of the cluster worker each connected player's id is
\* in exactly one bucket, the one of its current position (so a move into
\* another bucket took it out of the old one), and the id of a player that is
\* not connected, or has just disconnected, is in no bucket
C12_ExactlyOneBucket ==
    /\ last.op = "tick" =>
          \A id \in Connected :
              BucketsOf(grid, id) = { GetCell(cplayers[id].x, cplayers[id].y) }
    /\ \A id \in PlayerIds \ Connected : BucketsOf(grid, id) = {}

(***************************************************************************)
(* Food                                                                    *)
(***************************************************************************)
\* The food step of checkCollisions has just run
FoodStep == last.op = "food"
\* The cells the food step started with, as << id, index >>
ScanCells ==
    { c \in (DOMAIN last.before) \X (1..64) :
         /\ last.before[c[1]].alive
         /\ c[2] <= Len(last.before[c[1]].cells) }
ScanCell(c) == last.before[c[1]].cells[c[2]]
Remaining == { food[i] : i \in DOMAIN food }
EatsOf(id) == SelectSeq(last.eats, LAMBDA e : e.id = id)
RECURSIVE NutritionOf(_)
NutritionOf(es) ==
    IF es = << >> THEN 0 ELSE Nutrition(es[1].food) + NutritionOf(Tail(es))

C14_EatenFoodIsRemoved ==
    /\ \A i \in DOMAIN food : ~food[i].eaten
    /\ last.op = "broadcast" => Len(last.state.food) = Len(food)
    /\ FoodStep =>
          /\ \A k \in DOMAIN last.eats : ~last.eats[k].food.eaten
          /\ Len(food) = Len(last.foodBefore) - Len(last.eats)

\* A tick in which two players have each consumed an item of food
C14_Witness ==
    /\ FoodStep
    /\ \E j, k \in DOMAIN last.eats : last.eats[j].id # last.eats[k].id

C16_RespawnGivesOneCell ==
    \A id \in Joined :
        ~players[id].alive =>
            LET r == Respawn(players[id], now)
            IN /\ r.alive
               /\ Len(r.cells) = 1
               /\ r.cells[1].mass \in { StartMass, VipMass }

(***************************************************************************)
(* Snapshots                                                               *)
(***************************************************************************)
\* C17: every snapshot the broadcast timer emits shows the players and the
\* food exactly as they were when the most recently completed tick ended: no
\* effect of a join, move, split or disconnect handled since is visible in it
C17_SnapshotIsSettledState ==
    last.op = "broadcast" =>
        /\ last.state.players = settled.players
        /\ last.state.food = settled.food

(***************************************************************************)
(* Operations addressed to a player that is absent, dead or without cells  *)
(***************************************************************************)
\* The id names no player of the world, or a dead one, or one without cells
InvalidTarget(id) ==
    id \notin Joined \/ ~players[id].alive \/ Len(players[id].cells) = 0
\* The step leaves the players and the food as they were
WorldUntouched == players' = players /\ order' = order /\ food' = food
\* The getters of a player without cells: 0, the origin, no cell
GettersAreTotal ==
    \A id \in Joined :
        Len(players[id].cells) = 0 =>
            /\ TotalMass(players[id].cells) = 0
            /\ CenterPosition(players[id].cells) = [x |-> 0, y |-> 0]
            /\ VisibleData(id, players[id]).size = 0

\* C18 as stated: a move, a split, a removal or an update addressed to an id
\* that is not in the world, or to a player that is dead or has no cells,
\* changes nothing in the world
C18_InvalidTargetIsNoOp ==
    [][ /\ (last'.op \in {"move", "split", "disconnect"} /\ InvalidTarget(last'.id))
           => WorldUntouched
        /\ last'.op = "skip" => WorldUntouched ]_vars

\* C18 as the code has it: a move, a split or an update addressed to such a
\* player, and a removal addressed to an id that is not in the world, change
\* nothing; the removal of a dead or cell-less player that is in the world
\* takes the player out of the world and scatters no food; the getters of a
\* player without cells return 0, the origin and no cell
C18_InvalidTargetIsNoOpButRemoval ==
    [][ /\ (last'.op \in {"move", "split"} /\ InvalidTarget(last'.id)) => WorldUntouched
        /\ (last'.op = "disconnect" /\ last'.id \notin Joined) => WorldUntouched
        /\ (last'.op = "disconnect" /\ last'.id \in Joined /\ InvalidTarget(last'.id))
              => /\ players' = WithoutPlayer(last'.id)
                 /\ food' = food
        /\ last'.op = "skip" => WorldUntouched
        /\ GettersAreTotal ]_vars

\* A move or a split addressed to a player that has been eaten
C18_Witness ==
    /\ last.op \in {"move", "split"}
    /\ last.id \in Joined
    /\ ~players[last.id].alive

(***************************************************************************)
(* Movement intents                                                        *)
(***************************************************************************)
\* C19: a move payload that is missing, or whose x or y is not a number, is
\* dropped: it changes no player and nothing else of the simulation (stated
\* here for the cluster worker, whose move handler the claim covers)
C19_MalformedMoveIsDropped ==
    [][ (last'.op = "move" /\ last'.data.kind # "num")
           => (cplayers' = cplayers /\ grid' = grid) ]_vars

(***************************************************************************)
(* The tick of the Go server and slow clients                              *)
(***************************************************************************)
\* A network write is blocked while the writing goroutine holds the
\* GameServer mutex
WriteBlockedUnderLock ==
    gs.board = "write" /\ gs.towrite # {} /\ gs.towrite \subseteq gs.stalled

\* C20: a slow or blocked client never stalls the tick: while a client's
\* write is blocked, and whatever clients join or leave, the tick goroutine
\* waiting for the GameServer mutex in UpdateGame can take it and go on
C20_SlowClientNeverStallsTick ==
    (WriteBlockedUnderLock /\ gs.tick = "rlock") => CanRLock(gs)

\* ---- mass floor ----

\* every cell of every alive player of ps has mass at least m
CellsAtLeast(ps, m) ==
    \A id \in DOMAIN ps :
        ps[id].alive => \A k \in 1..Len(ps[id].cells) : ps[id].cells[k].mass >= m

\* C21, as stated, on the split step: when every cell of every alive player
\* has at least the mass floor that decay clamps to (400) and a player
\* splits, every cell of every alive player still has at least that floor.
C21_MassAtLeastFloor ==
    (DidSplit /\ CellsAtLeast(last.before, DecayFloor)) => CellsAtLeast(players, DecayFloor)

\* C21, amended: the floor of 400 is the floor of decay only. Every cell of
\* an alive player has more than half the minimum split mass (32), and one
\* integration step leaves a cell of at most 500 its mass and takes a larger
\* cell to a mass between 400 and the mass it had.
C21_MassAboveHalfSplitMass ==
    /\ \A c \in CellsOfAll :
          players[c[1]].alive => 2 * CellAt(c).mass > MinSplitMass
    /\ last.op = "integrate" =>
          \A k \in 1..Len(last.before) :
              LET b == last.before[k].mass
                  a == players[last.id].cells[k].mass
              IN IF b > DecayThreshold
                 THEN a >= DecayFloor /\ a <= b
                 ELSE a = b

\* a player whose cells were all at the floor has split into cells below it
C21_Witness ==
    /\ DidSplit
    /\ CellsAtLeast(last.before, DecayFloor)
    /\ \E k \in 1..Len(players[last.id].cells) :
          players[last.id].cells[k].mass < DecayFloor

\* ---- tick phases ----

\* The positions of GameWorld.update from which this tick's call of
\* checkCollisions is still to come.
BeforeCheckCollisions == pc \in {"update", "interact", "score", "food", "pvp"}

\* One iteration of handleCellInteractions that changed a cell: an attraction,
\* a merge or a separation push.
InteractionApplied == last.op = "interact" /\ players[last.id].cells # last.before

\* C22: within a tick the same-player cell interactions run after the
\* collision resolution of that tick: when a merge, an attraction or a
\* separation push has just been applied, the tick's collision resolution
\* has already run.
C22_InteractionsAfterCollisions ==
    InteractionApplied => ~BeforeCheckCollisions

\* ---- split cooldown ----

\* A split request that Player.split turned down (or that named no player)
SplitRefused == last.op = "split" /\ ~last.ok

\* C23: a successful split records its time in lastSplit and comes at least
\* the split cooldown (1000 ms) after the time recorded by the player's
\* previous successful split; a split request during the cooldown, or when no
\* cell has more than the split mass, leaves every player as it was: cells,
\* masses, positions, velocities and lastSplit.
C23_SplitsCooldownApart ==
    /\ DidSplit =>
          /\ now - last.before[last.id].lastSplit >= SplitCooldown
          /\ players[last.id].lastSplit = now
    /\ SplitRefused => players = last.before

\* a request inside the cooldown, by a player with a cell large enough to
\* split, was turned down
C23_Witness ==
    /\ SplitRefused
    /\ last.id \in DOMAIN last.before
    /\ now - last.before[last.id].lastSplit < SplitCooldown
    /\ \E k \in 1..Len(last.before[last.id].cells) :
          CanSplitCell(last.before[last.id].cells[k])

\* ---- which cells a split divides ----

\* the indexes of the cells of the splitting player with mass above 64
LargeBefore ==
    { k \in 1..Len(last.before[last.id].cells) :
         last.before[last.id].cells[k].mass > 64 * MassScale }

\* C24: a successful split divides exactly the cells with mass strictly
\* above 64. Every other cell is left as it was, the cell count grows by the
\* number of divided cells, and both halves of a divided cell carry the time
\* of the split as splitTime and canMerge = FALSE.
C24_SplitDividesLargeCells ==
    DidSplit =>
      LET old == last.before[last.id].cells
          new == players[last.id].cells
          n == Len(old)
      IN /\ Len(new) = n + Cardinality(LargeBefore)
         /\ \A k \in 1..n :
               IF k \in LargeBefore
               THEN /\ new[k].mass = old[k].mass \div 2
                    /\ new[k].splitTime = now
                    /\ ~new[k].canMerge
               ELSE new[k] = old[k]
         /\ \A k \in (n + 1)..Len(new) :
               /\ new[k].splitTime = now
               /\ ~new[k].canMerge
               /\ \E j \in LargeBefore : new[k].mass = old[j].mass \div 2

\* a split that divided two cells and left a third, too small, alone
C24_Witness ==
    /\ DidSplit
    /\ Cardinality(LargeBefore) >= 2
    /\ Cardinality(LargeBefore) < Len(last.before[last.id].cells)

\* ---- merge eligibility ----

\* more than the merge cooldown has passed since the cell's splitTime
CooledDown(c) == now - c.splitTime > MergeCooldown

Cell1Before == last.before[last.i]
Cell2Before == last.before[last.j]

\* C26: two cells of a player that are both not merge-eligible never fuse;
\* when exactly one is eligible they fuse only at a distance below the sum of
\* their radii minus 5, and the surviving cell then has the smaller of the
\* two splitTimes and canMerge = the AND of the two flags.
C26_HardMerge ==
    Merged =>
      /\ Cell1Before.canMerge \/ Cell2Before.canMerge
      /\ Cell1Before.canMerge # Cell2Before.canMerge =>
            LET m == players[last.id].cells[last.j]
            IN /\ Dist(Cell1Before.x - Cell2Before.x, Cell1Before.y - Cell2Before.y)
                     < Radius(Cell1Before) + Radius(Cell2Before) - 5 * Scale
               /\ m.splitTime = Min(Cell1Before.splitTime, Cell2Before.splitTime)
               /\ m.canMerge = (Cell1Before.canMerge /\ Cell2Before.canMerge)

\* an eligible cell and a cell that is not eligible have fused
C26_Witness ==
    /\ Merged
    /\ Cell1Before.canMerge # Cell2Before.canMerge
    /\ Cell1Before.splitTime # Cell2Before.splitTime

\* ---- coinciding centers ----

\* every cell position and velocity of every player is a number
AllFinite(ps) ==
    \A id \in DOMAIN ps : \A k \in 1..Len(ps[id].cells) :
        NaN \notin {ps[id].cells[k].x, ps[id].cells[k].y,
                    ps[id].cells[k].vx, ps[id].cells[k].vy}

\* C27: handleCellInteractions never divides by zero, also for two cells of
\* a player whose centers coincide: every cell position and velocity of every
\* player is a defined finite number at every state.
C27_InteractionsStayFinite == AllFinite(players)

\* ---- food top-up ----

\* what the latest maintainFood added to the food Map
ToppedUp == foodWorld.size - last.size

\* C28: maintainFood adds exactly min(5, target - current) items when the
\* food count is below the target and none otherwise, so that it never takes
\* the count above the target; and when no food is consumed the count
\* reaches the target after finitely many updates.
C28_TopUpTowardsTarget ==
    /\ [](last.op = "maintainFood" =>
            /\ ToppedUp = (IF last.size >= foodWorld.targetCount THEN 0
                           ELSE IF foodWorld.targetCount - last.size > 5 THEN 5
                           ELSE foodWorld.targetCount - last.size)
            /\ last.size <= foodWorld.targetCount
                  => foodWorld.size <= foodWorld.targetCount)
    /\ <>(foodWorld.size >= foodWorld.targetCount)

\* an update has added the full 5 items and left the world below its target
C28_Witness ==
    /\ last.op = "maintainFood"
    /\ ToppedUp = 5
    /\ foodWorld.size < foodWorld.targetCount

\* ---- leaderboard ----

\* A leaderboard, as a sequence of entries with the listed player's id and
\* score, is the top 10 by score of the players inGame, whose scores are
\* scoreOf: at most 10 entries, of players in the game only, in order of
\* non-increasing score, and no player left out has a strictly higher score
\* than a listed one.
IsTopTen(leaderboard, inGame, scoreOf) ==
    LET listed == { leaderboard[k].id : k \in DOMAIN leaderboard }
    IN /\ Len(leaderboard) <= 10
       /\ listed \subseteq inGame
       /\ \A k \in DOMAIN leaderboard :
             k < Len(leaderboard) => leaderboard[k].score >= leaderboard[k + 1].score
       /\ \A p \in inGame \ listed : \A k \in DOMAIN leaderboard :
             scoreOf[p] <= leaderboard[k].score

\* C29, for the Go server: every leaderboard written to a client is the top
\* 10 by score of the players that are in the game when it is written.
C29_LeaderboardIsTopTen ==
    last.op = "written" =>
        IsTopTen(last.leaderboard, gs.members, [p \in gs.members |-> GoMass \div 4])

\* ---- disconnect ----

\* The ids of the players a game-state snapshot or a leaderboard lists
Listed(entries) == { entries[k].id : k \in DOMAIN entries }

\* How far a running update is: the player loop (the player, then the pair of
\* cells of handleCellInteractions, which counts down), then checkCollisions
\* (the pair of players, which counts up), then maintainFood
TickProgress ==
    CASE pc = "update"   -> tick.pi * 1000
      [] pc = "interact" -> tick.pi * 1000 + 900 - (tick.ci * 20 + tick.cj)
      [] pc = "score"    -> tick.pi * 1000 + 950
      [] pc = "food"     -> 100000
      [] pc = "pvp"      -> 100000 + tick.ai * 100 + tick.aj
      [] pc = "maintain" -> 200000
      [] OTHER           -> 300000

\* A running update is at a player that is in the map
TickAtPlayer ==
    /\ pc \in {"update", "interact", "score"} =>
         /\ tick.pi \in 1..Len(order)
         /\ Cur \in Joined
    /\ pc = "interact" =>
         /\ tick.ci \in 1..Len(players[Cur].cells)
         /\ tick.cj \in 1..(tick.ci - 1)
    /\ pc = "pvp" =>
         /\ tick.ai \in 1..Len(tick.arr)
         /\ tick.aj \in (tick.ai + 1)..Len(tick.arr)
         /\ \A k \in 1..Len(tick.arr) : tick.arr[k] \in Joined

\* C30: a disconnect is applied between two updates and is clean. The step
\* is taken while no update runs, removes the player from the map and leaves
\* the other players as they are; a player that is not in the map is in no
\* game-state snapshot and in no leaderboard, and comes back only by
\* joining; a move or a split for an id that is not in the map changes
\* nothing; and an update, whoever has left before it, runs to its end over
\* the players that remain: no handler runs inside it, every step of it is
\* at a player of the map and takes it further, and after maintainFood the
\* state it leaves lists the alive players of the map. (The players a
\* snapshot lists do not depend on the food, which is left out of it here.)
C30_DisconnectIsClean ==
    [][/\ (last'.op = "disconnect") =>
            (/\ pc = "idle"
             /\ last'.id \notin Joined'
             /\ \A q \in Joined' : players'[q] = players[q])
       /\ \A gone \in PlayerIds \ Joined' :
            /\ gone \notin Listed(GameState(players', order', << >>, now').players)
            /\ gone \notin Listed(GetLeaderboard(players', order'))
       /\ \A back \in Joined' \ Joined :
            last'.op = "join" /\ last'.id = back
       /\ (last'.op \in {"move", "split"} /\ last'.id \notin Joined) =>
            UNCHANGED << players, order, food >>
       /\ (pc # "idle") =>
            (/\ Joined' = Joined /\ order' = order
             /\ TickProgress' > TickProgress)
       /\ TickAtPlayer'
       /\ (last'.op = "maintain") =>
            (/\ pc' = "idle"
             /\ Listed(settled'.players) =
                  {q \in Joined' : players'[q].alive /\ players'[q].spawned})]_vars

\* an update has completed for the one player that remains after the other
\* has left and its mass has been scattered as food
C30_Witness ==
    /\ last.op = "maintain"
    /\ Cardinality(Joined) = 1
    /\ \E k \in DOMAIN food : food[k].size = ExplosionFoodSize
    /\ \A id \in Joined : players[id].alive /\ Len(players[id].cells) > 0

\* ---- growth milestones ----

\* The milestones a player had reached when the score step of an update
\* finds it as p: those the code has recorded and those of the score it has
NewMilestones(p) ==
    LET score == TotalMass(p.cells) \div (4 * MassScale)
    IN Max(0, score \div 100 - Max(p.lastGrowthMilestone, p.score \div 100))

\* C31: a growth bonus is granted once per 100-point milestone: the score
\* step of an update adds 50 mass per milestone that the score reaches in it
\* and had not reached before in this life, and adds nothing when the score
\* reaches no new milestone.
C31_BonusOncePerMilestone ==
    (last.op = "score" /\ last.id \in Joined) =>
        TotalMass(players[last.id].cells)
            = TotalMass(last.before.cells) + NewMilestones(last.before) * BonusMass

\* ---- tie-break ----

\* Each of p and q has a cell that exceeds the eat ratio against a cell of
\* the other that it overlaps, and the invulnerability rule lets both eat
EatEachOther(p, q) ==
    /\ CanEat(p, q) /\ CanEat(q, p)
    /\ ~p.invulnerable /\ ~q.invulnerable

\* C32: when each of two players could eat the other, the iteration of the
\* player loops that examines the pair consumes exactly one of them, and it
\* is the one that comes later in the iteration order of the players Map
\* (the order of joining): the earlier one eats, stays alive and keeps its
\* cells, the later one dies.
C32_LaterPlayerIsConsumed ==
    (last.op = "pvp" /\ EatEachOther(last.before[last.id1], last.before[last.id2])) =>
        /\ last.eaten
        /\ last.eater = last.id1 /\ last.victim = last.id2
        /\ players[last.id1].alive /\ Len(players[last.id1].cells) = Len(last.before[last.id1].cells)
        /\ ~players[last.id2].alive /\ players[last.id2].cells = << >>
        /\ \E k \in 1..Len(order), l \in 1..Len(order) :
              k < l /\ order[k] = last.id1 /\ order[l] = last.id2

\* player 2 joined first, each could eat the other, and player 1 was consumed
C32_Witness ==
    /\ last.op = "pvp"
    /\ EatEachOther(last.before[1], last.before[2])
    /\ last.id1 = 2
    /\ ~players[1].alive

\* ---- repeated movement intents ----

\* C33: the number of move messages does not change how fast a cell travels:
\* once a movement intent has been handled, handling the same intent again
\* before the next update leaves the velocity of every cell of the player as
\* it is.
C33_RepeatedMoveSameVelocity ==
    (last.op = "move" /\ last.id \in Joined) =>
        LET again == MoveHandler(players, last.id, last.data)[last.id].cells
            once == players[last.id].cells
        IN \A k \in 1..Len(once) :
              again[k].vx = once[k].vx /\ again[k].vy = once[k].vy

\* ---- world boundary ----

\* C34: whenever constrainToWorld moves a cell back onto a world boundary,
\* the velocity component perpendicular to that boundary is zero afterwards:
\* vx when the cell was clamped at the left or the right edge, vy when it was
\* clamped at the top or the bottom edge.
C34_ClampZeroesVelocity ==
    (last.op = "score" /\ last.id \in Joined) =>
        LET unclamped == ScoreAndGrowth(last.before).cells
            cells == players[last.id].cells
        IN \A k \in 1..Len(cells) :
              /\ cells[k].x # unclamped[k].x => cells[k].vx = 0
              /\ cells[k].y # unclamped[k].y => cells[k].vy = 0

\* ---- the spatial grid of the Go server ----

\* C35: a visibility query never sees the grid in a mid-update state: when
\* GetNearbyData runs GetNearbyPlayers for a player, every connected player
\* (every player of the GameServer) is in exactly one bucket of the grid.
C35_QuerySeesEveryPlayerOnce ==
    last.op = "nearby" =>
        \A id \in srv.players : Cardinality(BucketsOf(srv.cells, id)) = 1

\* C36: once RemovePlayer(id) has returned, and until that connection is
\* gone for good, the player is in no bucket of the grid (and so is not
\* returned by GetNearbyPlayers).
C36_RemovedPlayerLeavesGrid ==
    \A id \in srv.removed : BucketsOf(srv.cells, id) = {}

\* ---- the locks of the Go server ----

\* The step of goroutine g when it has called Lock or RLock, or holds the
\* mutex of the GameServer
LockStep(g) ==
    \/ \E id \in PlayerIds : g = Conn[id] /\ (AddPlayerLock(id) \/ AddPlayerApply(id))
    \/ RemovePlayerLock(g) \/ RemovePlayerApply(g)
    \/ g = "cast" /\ CastSend
    \/ g = "board" /\ (BoardLock \/ BoardUnlock)

\* C37: the locking is deadlock-free: in no state is there a set of
\* goroutines each of which waits, in Lock or RLock, for a goroutine of the
\* set (to release the mutex, or to get it first); and, the writes to the
\* network returning, a goroutine that is in Lock or RLock or holds the
\* mutex of the GameServer and waits for nobody can go on.
C37_NoDeadlock ==
    /\ \A waiting \in SUBSET Routines :
          waiting # {} => \E g \in waiting : WaitsFor(srv, g) \cap waiting = {}
    /\ \A g \in Routines :
          (/\ g \in Writers(srv) \cup Readers(srv) \cup Pending(srv)
                   \/ srv.pc[g] \in {"GetNearbyData.food", "leaderboard.lock"}
           /\ WaitsFor(srv, g) = {}) => ENABLED LockStep(g)

\* the leaderboard loop writes under its RLock, a connection handler has
\* called Lock in RemovePlayer and waits for it, and the broadcast loop has
\* called RLock and waits behind the handler
C37_Witness ==
    /\ srv.pc["board"] = "leaderboard.write"
    /\ \E id \in PlayerIds : srv.pc[Conn[id]] = "RemovePlayer"
    /\ srv.pc["cast"] = "GetNearbyData.food"
    /\ WaitsFor(srv, "cast") # {}

(***************************************************************************)
(* Dead players.                                                           *)
(***************************************************************************)
\* The step leaves player id in the world and is not its join-game
StaysOut(id) ==
    /\ id \in DOMAIN players'
    /\ ~(last'.op = "join" /\ last'.id = id)

\* C38: a player that is not alive is inert.  Until it joins again or is
\* removed, no step changes its cells, its kill count or its score; the
\* update integrates, interacts and scores only players that are alive; no
\* eat has it as the consumer or as the victim, the later pairs of the
\* collision pass in which it died included; and it eats no food.
C38_DeadPlayerIsInert ==
    [][\A id \in DOMAIN players :
          ~players[id].alive =>
             /\ StaysOut(id) =>
                   /\ players'[id].cells = players[id].cells
                   /\ players'[id].kills = players[id].kills
                   /\ players'[id].score = players[id].score
             /\ last'.op \in {"integrate", "interact", "score"} => last'.id # id
             /\ (last'.op = "pvp" /\ last'.eaten) => id \notin {last'.eater, last'.victim}
             /\ last'.op = "food" =>
                   \A k \in 1..Len(last'.eats) : last'.eats[k].id # id]_vars

\* A later pair of the collision pass has been visited with a player that
\* died earlier in the pass: nobody ate
C38_Witness ==
    /\ last.op = "pvp"
    /\ ~last.eaten
    /\ \E id \in {last.id1, last.id2} : ~last.before[id].alive

====
